---- MODULE Spec2Model ----
(***************************************************************************)
(* Governance core of blugreen: the intent contract (CAMADA 2,             *)
(* app/services/intent_capture.py) and the controlled autonomous loop      *)
(* (CAMADA 4, app/services/autonomous_loop.py), as the service methods and *)
(* their API handlers implement them.                                      *)
(*                                                                         *)
(* Units: the clock counts minutes (datetime.utcnow()); money is counted   *)
(* in whole units of cost_usd; None of an Optional[datetime] is NoTime,    *)
(* None of an Optional[str] is None.                                       *)
(* Texts are kept in ASCII: an accented letter is written as its accent    *)
(* followed by its letter (~a ~o ,c 'u 'o and their capitals), which       *)
(* lower(), `in` and json.dumps treat as the one letter it stands for.     *)
(* The rows keep the columns that some operation reads or that a           *)
(* transition stamps; created_at, executed_at, occurred_at, last_action_at *)
(* and execution_log are written once and never read, and are left out.    *)
(***************************************************************************)
EXTENDS Integers, Sequences, FiniteSets, TLC

VARIABLES intents, loops, actions, pauses, violations, now, call, sessions,
          workflows, steps, projects, products, product_steps

vars == <<intents, loops, actions, pauses, violations, now, call, sessions, workflows, steps, projects, products, product_steps>>

\* the tables of the workflow step engine
engine == <<workflows, steps, projects>>

\* the tables of the create flow
flows == <<products, product_steps>>

(***************************************************************************)
(* Bounds of the model                                                     *)
(***************************************************************************)
\* rows of the intent table
MaxIntents == 1
\* rows of the loop table
MaxLoops == 1
\* rows of the action and pause tables, together
MaxLedger == 2
\* last reading of the clock
MaxTime == 1
\* requests that can be in progress at the same time
MaxSessions == 2

\* ids a request may name: the rows that exist and one that does not
RequestIntentIds == 1..(Len(intents) + 1)
RequestLoopIds == 1..(Len(loops) + 1)

\* a row can still be added to the action or pause table
RoomInLedger == Len(actions) + Len(pauses) < MaxLedger

None == "None"
NoTime == -1

(***************************************************************************)
(* Enumerations                                                            *)
(***************************************************************************)
IntentStatus == {"draft", "validated", "frozen", "completed", "cancelled"}
RiskLevel == {"minimal", "low", "medium", "high"}
LoopStatus == {"pending", "running", "paused", "waiting_approval",
               "completed", "cancelled", "failed", "limit_reached"}
PauseReason == {"iteration_limit", "time_limit", "cost_limit", "action_limit",
                "user_request", "quality_gate_failed", "intent_violation",
                "manual_review_required"}

(***************************************************************************)
(* Text: Python str operations used by the services                        *)
(***************************************************************************)
UpperToLower ==
    [c \in {"A","B","C","D","E","F","G","H","I","J","K","L","M","N","O","P",
            "Q","R","S","T","U","V","W","X","Y","Z"} |->
        CASE c = "A" -> "a" [] c = "B" -> "b" [] c = "C" -> "c" [] c = "D" -> "d"
          [] c = "E" -> "e" [] c = "F" -> "f" [] c = "G" -> "g" [] c = "H" -> "h"
          [] c = "I" -> "i" [] c = "J" -> "j" [] c = "K" -> "k" [] c = "L" -> "l"
          [] c = "M" -> "m" [] c = "N" -> "n" [] c = "O" -> "o" [] c = "P" -> "p"
          [] c = "Q" -> "q" [] c = "R" -> "r" [] c = "S" -> "s" [] c = "T" -> "t"
          [] c = "U" -> "u" [] c = "V" -> "v" [] c = "W" -> "w" [] c = "X" -> "x"
          [] c = "Y" -> "y" [] c = "Z" -> "z"]

\* str.lower(): the accent of a digraph stays, its letter is lowered
RECURSIVE Lower(_)
Lower(s) ==
    IF Len(s) = 0 THEN ""
    ELSE LET c == SubSeq(s, 1, 1)
         IN (IF c \in DOMAIN UpperToLower THEN UpperToLower[c] ELSE c)
                \o Lower(SubSeq(s, 2, Len(s)))

\* `word in text` on two str
Contains(text, word) ==
    \E i \in 1..(Len(text) - Len(word) + 1) :
        SubSeq(text, i, i + Len(word) - 1) = word

\* any(word in text for word in words)
ContainsAny(text, words) == \E w \in words : Contains(text, w)

\* the code points of the accented letters, by digraph
AccentedCodePoint ==
    [d \in {"~a", "~A", "~o", "~O", ",c", ",C", "'u", "'U", "'o", "'O"} |->
        CASE d = "~a" -> "00e3" [] d = "~A" -> "00c3"
          [] d = "~o" -> "00f5" [] d = "~O" -> "00d5"
          [] d = ",c" -> "00e7" [] d = ",C" -> "00c7"
          [] d = "'u" -> "00fa" [] d = "'U" -> "00da"
          [] d = "'o" -> "00f3" [] d = "'O" -> "00d3"]

\* json.dumps of a str with ensure_ascii=True: \uXXXX for a non-ASCII letter,
\* a backslash before a quote and before a backslash
RECURSIVE JsonEscape(_)
JsonEscape(s) ==
    IF Len(s) = 0 THEN ""
    ELSE IF Len(s) >= 2 /\ SubSeq(s, 1, 2) \in DOMAIN AccentedCodePoint
    THEN "\\u" \o AccentedCodePoint[SubSeq(s, 1, 2)] \o JsonEscape(SubSeq(s, 3, Len(s)))
    ELSE LET c == SubSeq(s, 1, 1)
         IN (CASE c = "\"" -> "\\\"" [] c = "\\" -> "\\\\" [] OTHER -> c)
                \o JsonEscape(SubSeq(s, 2, Len(s)))

JsonValue(v) == IF v = None THEN "null" ELSE "\"" \o JsonEscape(v) \o "\""

(***************************************************************************)
(* Inputs of the requests                                                  *)
(***************************************************************************)
\* ProjectIntentCreate payloads (every text field is a str, possibly empty)
IntentPayloads ==
    { [intent_type |-> "improve", product_name |-> "Loja",
       product_description |-> "Vende livros", business_goal |-> "Vender mais",
       target_audience |-> "Leitores", success_criteria |-> "Pedidos pagos",
       constraints |-> "N~ao alterar contratos p'ublicos da API; N~ao remover funcionalidades",
       risk_level |-> "low", main_features |-> None],
      [intent_type |-> "understand", product_name |-> "Loja",
       product_description |-> "Vende livros", business_goal |-> "Vender mais",
       target_audience |-> "Leitores", success_criteria |-> "Pedidos pagos",
       constraints |-> "do not remove the payments endpoint",
       risk_level |-> "minimal", main_features |-> "checkout"],
      [intent_type |-> "create", product_name |-> "",
       product_description |-> "Vende livros", business_goal |-> "Vender mais",
       target_audience |-> "Leitores", success_criteria |-> "Pedidos pagos",
       constraints |-> "",
       risk_level |-> "low", main_features |-> None] }

Validators == {"user"}
ActionDescriptions == {"Alterar contrato da API", "remove payments endpoint",
                       "Deploy em produ,c~ao", "gerar testes"}
Agents == {"agent-1"}

(***************************************************************************)
(* Response of the last request: op, the id it named, whether it returned  *)
(* normally, its return value (or the data of the error) and the exception.*)
(* n alternates between 0 and 1 from one request to the next, so that a    *)
(* request is a step even when it repeats the previous one.  arg holds the *)
(* other arguments of the request, where a property needs them.            *)
(***************************************************************************)
ResponseTo(op, id, arg, ok, ret, err) ==
    [op |-> op, id |-> id, arg |-> arg, ok |-> ok, ret |-> ret, err |-> err,
     n |-> 1 - call.n]

Response(op, id, ok, ret, err) == ResponseTo(op, id, <<>>, ok, ret, err)

NoResponse ==
    [op |-> "none", id |-> 0, arg |-> <<>>, ok |-> TRUE, ret |-> <<>>, err |-> "", n |-> 0]

\* A request in progress holds the row its handler loaded with session.get
\* (the Session of get_session lives as long as the request) and the
\* arguments it was called with; a request that runs from its load to its
\* commit in one step leaves no session behind.
Sessions == 1..MaxSessions
NoSession == [op |-> "none", id |-> 0, row |-> <<>>, arg |-> <<>>]
NoSessions == [s \in Sessions |-> NoSession]

\* the step is a request `op` (Tick leaves call alone)
Requested(op) == call'.n # call.n /\ call'.op = op

(***************************************************************************)
(* Intent contract (CAMADA 2)                                              *)
(***************************************************************************)
\* ProjectIntent(**payload.model_dump()) with the model's defaults
ProjectIntent(payload) ==
    [intent_type |-> payload.intent_type,
     status |-> "draft",
     product_name |-> payload.product_name,
     product_description |-> payload.product_description,
     business_goal |-> payload.business_goal,
     target_audience |-> payload.target_audience,
     success_criteria |-> payload.success_criteria,
     constraints |-> payload.constraints,
     risk_level |-> payload.risk_level,
     main_features |-> payload.main_features,
     validated_at |-> NoTime,
     frozen_at |-> NoTime,
     validated_by |-> None,
     intent_hash |-> None]

\* POST /intent/
CreateIntent(payload) ==
    /\ Len(intents) < MaxIntents
    /\ intents' = Append(intents, ProjectIntent(payload))
    /\ call' = Response("create_intent", Len(intents) + 1, TRUE, <<>>, "")
    /\ UNCHANGED <<flows, engine, sessions, loops, actions, pauses, violations, now>>

required_fields ==
    <<"product_name", "product_description", "business_goal",
      "target_audience", "success_criteria", "constraints">>

\* the fields of required_fields whose value is falsy, in the order of the list
missing_fields(intent) ==
    SelectSeq(required_fields, LAMBDA f : intent[f] = "" \/ intent[f] = None)

\* validate_intent stopping at the first empty field
ValidateIntentFirstMissing(id, validated_by) ==
    IF id \notin DOMAIN intents
    THEN /\ call' = Response("validate_intent", id, FALSE, <<>>, "HTTP404")
         /\ UNCHANGED <<flows, engine, sessions, intents, loops, actions, pauses, violations, now>>
    ELSE IF missing_fields(intents[id]) # <<>>
    THEN /\ call' = Response("validate_intent", id, FALSE,
                             <<Head(missing_fields(intents[id]))>>, "ValueError")
         /\ UNCHANGED <<flows, engine, sessions, intents, loops, actions, pauses, violations, now>>
    ELSE /\ intents' = [intents EXCEPT ![id].status = "validated",
                                       ![id].validated_at = now,
                                       ![id].validated_by = validated_by]
         /\ call' = Response("validate_intent", id, TRUE, <<>>, "")
         /\ UNCHANGED <<flows, engine, sessions, loops, actions, pauses, violations, now>>

\* POST /intent/{id}/validate -> IntentCaptureService.validate_intent
ValidateIntent(id, validated_by) ==
    IF id \notin DOMAIN intents
    THEN /\ call' = Response("validate_intent", id, FALSE, <<>>, "HTTP404")
         /\ UNCHANGED <<flows, engine, sessions, intents, loops, actions, pauses, violations, now>>
    ELSE IF missing_fields(intents[id]) # <<>>
    THEN /\ call' = Response("validate_intent", id, FALSE,
                             missing_fields(intents[id]), "ValueError")
         /\ UNCHANGED <<flows, engine, sessions, intents, loops, actions, pauses, violations, now>>
    ELSE /\ intents' = [intents EXCEPT ![id].status = "validated",
                                       ![id].validated_at = now,
                                       ![id].validated_by = validated_by]
         /\ call' = Response("validate_intent", id, TRUE, <<>>, "")
         /\ UNCHANGED <<flows, engine, sessions, loops, actions, pauses, violations, now>>

\* json.dumps(intent_data, sort_keys=True): keys in sorted order
intent_json(intent) ==
    "{\"business_goal\": " \o JsonValue(intent.business_goal)
      \o ", \"constraints\": " \o JsonValue(intent.constraints)
      \o ", \"main_features\": " \o JsonValue(intent.main_features)
      \o ", \"product_description\": " \o JsonValue(intent.product_description)
      \o ", \"product_name\": " \o JsonValue(intent.product_name)
      \o ", \"risk_level\": " \o JsonValue(intent.risk_level)
      \o ", \"success_criteria\": " \o JsonValue(intent.success_criteria)
      \o ", \"target_audience\": " \o JsonValue(intent.target_audience)
      \o "}"

\* hashlib.sha256(...).hexdigest(), taken as collision free: the digest
\* stands for the text it was computed from
sha256(text) == "sha256:" \o text

\* freeze_intent hashing only the six required fields
intent_json_required(intent) ==
    "{\"business_goal\": " \o JsonValue(intent.business_goal)
      \o ", \"constraints\": " \o JsonValue(intent.constraints)
      \o ", \"product_description\": " \o JsonValue(intent.product_description)
      \o ", \"product_name\": " \o JsonValue(intent.product_name)
      \o ", \"success_criteria\": " \o JsonValue(intent.success_criteria)
      \o ", \"target_audience\": " \o JsonValue(intent.target_audience)
      \o "}"

FreezeIntentRequiredOnly(id) ==
    IF id \notin DOMAIN intents
    THEN /\ call' = Response("freeze_intent", id, FALSE, <<>>, "HTTP404")
         /\ UNCHANGED <<flows, engine, sessions, intents, loops, actions, pauses, violations, now>>
    ELSE IF intents[id].status # "validated"
    THEN /\ call' = Response("freeze_intent", id, FALSE, <<>>, "ValueError")
         /\ UNCHANGED <<flows, engine, sessions, intents, loops, actions, pauses, violations, now>>
    ELSE /\ intents' = [intents EXCEPT
                           ![id].status = "frozen",
                           ![id].frozen_at = now,
                           ![id].intent_hash =
                               sha256(intent_json_required(intents[id]))]
         /\ call' = Response("freeze_intent", id, TRUE, <<>>, "")
         /\ UNCHANGED <<flows, engine, sessions, loops, actions, pauses, violations, now>>

\* freeze_intent refusing only a contract that is already frozen
FreezeIntentUnlessFrozen(id) ==
    IF id \notin DOMAIN intents
    THEN /\ call' = Response("freeze_intent", id, FALSE, <<>>, "HTTP404")
         /\ UNCHANGED <<flows, engine, sessions, intents, loops, actions, pauses, violations, now>>
    ELSE IF intents[id].status = "frozen"
    THEN /\ call' = Response("freeze_intent", id, FALSE, <<>>, "ValueError")
         /\ UNCHANGED <<flows, engine, sessions, intents, loops, actions, pauses, violations, now>>
    ELSE /\ intents' = [intents EXCEPT
                           ![id].status = "frozen",
                           ![id].frozen_at = now,
                           ![id].intent_hash = sha256(intent_json(intents[id]))]
         /\ call' = Response("freeze_intent", id, TRUE, <<>>, "")
         /\ UNCHANGED <<flows, engine, sessions, loops, actions, pauses, violations, now>>

\* POST /intent/{id}/freeze -> IntentCaptureService.freeze_intent
FreezeIntent(id) ==
    IF id \notin DOMAIN intents
    THEN /\ call' = Response("freeze_intent", id, FALSE, <<>>, "HTTP404")
         /\ UNCHANGED <<flows, engine, sessions, intents, loops, actions, pauses, violations, now>>
    ELSE IF intents[id].status # "validated"
    THEN /\ call' = Response("freeze_intent", id, FALSE, <<>>, "ValueError")
         /\ UNCHANGED <<flows, engine, sessions, intents, loops, actions, pauses, violations, now>>
    ELSE /\ intents' = [intents EXCEPT
                           ![id].status = "frozen",
                           ![id].frozen_at = now,
                           ![id].intent_hash = sha256(intent_json(intents[id]))]
         /\ call' = Response("freeze_intent", id, TRUE, <<>>, "")
         /\ UNCHANGED <<flows, engine, sessions, loops, actions, pauses, violations, now>>

\* the rule evaluation of check_action_against_intent: the list `violations`
intent_rule_violations(intent, action_description) ==
    LET constraints_lower == Lower(intent.constraints)
        action_lower == Lower(action_description)
        r1 == IF Contains(constraints_lower, "n~ao alterar")
                 /\ ContainsAny(action_lower, {"alterar", "modificar", "mudar"})
              THEN <<"Tentativa de alterar algo que n~ao pode ser alterado">>
              ELSE <<>>
        r2 == IF Contains(constraints_lower, "n~ao remover")
                 /\ ContainsAny(action_lower, {"remover", "deletar", "excluir"})
              THEN <<"Tentativa de remover algo que n~ao pode ser removido">>
              ELSE <<>>
        r3 == IF intent.risk_level = "minimal"
                 /\ ContainsAny(action_lower,
                        {"deploy", "produ,c~ao", "publicar", "deletar banco"})
              THEN <<"A,c~ao de alto risco n~ao permitida (risk_level="
                        \o intent.risk_level \o ")">>
              ELSE <<>>
    IN r1 \o r2 \o r3

\* "; ".join(violations)
RECURSIVE JoinSemicolon(_)
JoinSemicolon(seq) ==
    IF Len(seq) = 0 THEN ""
    ELSE IF Len(seq) = 1 THEN seq[1]
    ELSE seq[1] \o "; " \o JoinSemicolon(Tail(seq))

\* the IntentViolation built on a denial
IntentViolation(id, intent, action_description, attempted_by, found) ==
    [intent_id |-> id,
     attempted_action |-> action_description,
     violated_constraint |-> intent.constraints,
     violation_details |-> JoinSemicolon(found),
     attempted_by |-> attempted_by,
     action_taken |-> "blocked"]

\* IntentCaptureService.check_action_against_intent on the intent `id`, for
\* the request `op`.  IntentViolation is declared without table=True, so it is
\* not a mapped class: session.add(violation) raises UnmappedInstanceError
\* before anything is written and before the return statement.
check_action_against_intent(op, opid, id, action_description, attempted_by) ==
    LET intent == intents[id]
        found == intent_rule_violations(intent, action_description)
    IN IF intent.status # "frozen"
       THEN /\ call' = ResponseTo(op, opid, <<action_description, attempted_by>>,
                                   TRUE, <<TRUE, None>>, "")
            /\ UNCHANGED <<flows, engine, sessions, intents, loops, actions, pauses, violations, now>>
       ELSE IF found # <<>>
       THEN /\ call' = ResponseTo(op, opid, <<action_description, attempted_by>>,
                                   FALSE, <<>>, "UnmappedInstanceError")
            /\ UNCHANGED <<flows, engine, sessions, intents, loops, actions, pauses, violations, now>>
       ELSE /\ call' = ResponseTo(op, opid, <<action_description, attempted_by>>,
                                   TRUE, <<TRUE, None>>, "")
            /\ UNCHANGED <<flows, engine, sessions, intents, loops, actions, pauses, violations, now>>

\* POST /intent/{id}/check-action
CheckAction(id, action_description, attempted_by) ==
    IF id \notin DOMAIN intents
    THEN /\ call' = Response("check_action", id, FALSE, <<>>, "HTTP404")
         /\ UNCHANGED <<flows, engine, sessions, intents, loops, actions, pauses, violations, now>>
    ELSE check_action_against_intent("check_action", id, id,
                                     action_description, attempted_by)

(***************************************************************************)
(* Controlled autonomous loop (CAMADA 4)                                   *)
(***************************************************************************)
\* ExecutionLoopCreate payloads: the ceilings of a loop
LoopCeilings ==
    { [max_time_minutes |-> 1, max_actions |-> 1, max_cost_usd |-> 1,
       max_iterations_before_pause |-> 1],
      [max_time_minutes |-> 2, max_actions |-> 2, max_cost_usd |-> 3,
       max_iterations_before_pause |-> 2] }

ProjectIds == {1}
\* what an agent reports to record_action: <<success, cost_usd, duration_seconds>>
ActionReports == {<<TRUE, 0, 5>>, <<FALSE, 2, 5>>, <<TRUE, 2, 0>>}
ActionTypes == {"code_generation"}
UserResponses == {None, "ok"}
Results == {"done"}
CancelReasons == {"user"}
UserPauseReasons == {"user_request"}
RecordDescriptions == {"gerar testes"}

\* ExecutionLoop(...) as create_loop builds it, with the model's defaults
ExecutionLoop(project_id, intent_id, ceilings) ==
    [project_id |-> project_id,
     intent_id |-> intent_id,
     status |-> "pending",
     max_time_minutes |-> ceilings.max_time_minutes,
     max_actions |-> ceilings.max_actions,
     max_cost_usd |-> ceilings.max_cost_usd,
     max_iterations_before_pause |-> ceilings.max_iterations_before_pause,
     elapsed_seconds |-> 0,
     actions_executed |-> 0,
     cost_accumulated_usd |-> 0,
     iterations_executed |-> 0,
     pause_count |-> 0,
     last_pause_reason |-> None,
     last_pause_at |-> NoTime,
     last_pause_message |-> None,
     progress_percentage |-> 0,
     last_action |-> None,
     result |-> None,
     started_at |-> NoTime,
     completed_at |-> NoTime,
     cancelled_at |-> NoTime,
     deadline |-> NoTime]

\* create_loop that only checks that the intent exists
CreateLoopAnyStatus(project_id, intent_id, ceilings) ==
    IF intent_id \notin DOMAIN intents
    THEN /\ call' = Response("create_loop", intent_id, FALSE,
                             <<"Inten,c~ao n~ao encontrada">>, "ValueError")
         /\ UNCHANGED <<flows, engine, sessions, intents, loops, actions, pauses, violations, now>>
    ELSE /\ Len(loops) < MaxLoops
         /\ loops' = Append(loops, ExecutionLoop(project_id, intent_id, ceilings))
         /\ call' = Response("create_loop", intent_id, TRUE, <<Len(loops) + 1>>, "")
         /\ UNCHANGED <<flows, engine, sessions, intents, actions, pauses, violations, now>>

\* POST /loop/ -> AutonomousLoopService.create_loop
CreateLoop(project_id, intent_id, ceilings) ==
    IF intent_id \notin DOMAIN intents
    THEN /\ call' = Response("create_loop", intent_id, FALSE,
                             <<"Inten,c~ao n~ao encontrada">>, "ValueError")
         /\ UNCHANGED <<flows, engine, sessions, intents, loops, actions, pauses, violations, now>>
    ELSE IF intents[intent_id].status # "frozen"
    THEN /\ call' = Response("create_loop", intent_id, FALSE,
                             <<"Inten,c~ao deve estar congelada antes de criar loop">>,
                             "ValueError")
         /\ UNCHANGED <<flows, engine, sessions, intents, loops, actions, pauses, violations, now>>
    ELSE /\ Len(loops) < MaxLoops
         /\ loops' = Append(loops, ExecutionLoop(project_id, intent_id, ceilings))
         /\ call' = Response("create_loop", intent_id, TRUE, <<Len(loops) + 1>>, "")
         /\ UNCHANGED <<flows, engine, sessions, intents, actions, pauses, violations, now>>

\* POST /loop/{id}/start -> AutonomousLoopService.start_loop
StartLoop(id) ==
    IF id \notin DOMAIN loops
    THEN /\ call' = Response("start_loop", id, FALSE, <<>>, "HTTP404")
         /\ UNCHANGED <<flows, engine, sessions, intents, loops, actions, pauses, violations, now>>
    ELSE IF loops[id].status # "pending"
    THEN /\ call' = Response("start_loop", id, FALSE, <<loops[id].status>>, "ValueError")
         /\ UNCHANGED <<flows, engine, sessions, intents, loops, actions, pauses, violations, now>>
    ELSE /\ loops' = [loops EXCEPT
                         ![id].status = "running",
                         ![id].started_at = now,
                         ![id].deadline = now + loops[id].max_time_minutes]
         /\ call' = Response("start_loop", id, TRUE, <<>>, "")
         /\ UNCHANGED <<flows, engine, sessions, intents, actions, pauses, violations, now>>

\* Python's a % b for b # 0 (the result takes the sign of b)
PyMod(a, b) == IF b > 0 THEN a % b ELSE -((-a) % (-b))

\* check_limits testing the action ceiling before the deadline
check_limits_actions_first(loop, t) ==
    IF loop.actions_executed >= loop.max_actions
    THEN <<TRUE, "action_limit",
           "Limite de a,c~oes atingido (" \o ToString(loop.max_actions) \o " a,c~oes)">>
    ELSE IF loop.started_at # NoTime /\ loop.deadline # NoTime /\ t >= loop.deadline
    THEN <<TRUE, "time_limit",
           "Limite de tempo atingido (" \o ToString(loop.max_time_minutes) \o " minutos)">>
    ELSE IF loop.cost_accumulated_usd >= loop.max_cost_usd
    THEN <<TRUE, "cost_limit",
           "Limite de custo atingido ($" \o ToString(loop.max_cost_usd) \o ")">>
    ELSE IF loop.iterations_executed > 0 /\ loop.max_iterations_before_pause = 0
    THEN <<"ZeroDivisionError">>
    ELSE IF loop.iterations_executed > 0
            /\ PyMod(loop.iterations_executed, loop.max_iterations_before_pause) = 0
    THEN <<TRUE, "iteration_limit",
           "Pausa obrigat'oria ap'os " \o ToString(loop.max_iterations_before_pause)
               \o " itera,c~oes">>
    ELSE <<FALSE, None, None>>

\* AutonomousLoopService.check_limits at time t: <<should_pause, reason, message>>,
\* or <<"ZeroDivisionError">> when the modulo of step 4 divides by zero
check_limits(loop, t) ==
    IF loop.started_at # NoTime /\ loop.deadline # NoTime /\ t >= loop.deadline
    THEN <<TRUE, "time_limit",
           "Limite de tempo atingido (" \o ToString(loop.max_time_minutes) \o " minutos)">>
    ELSE IF loop.actions_executed >= loop.max_actions
    THEN <<TRUE, "action_limit",
           "Limite de a,c~oes atingido (" \o ToString(loop.max_actions) \o " a,c~oes)">>
    ELSE IF loop.cost_accumulated_usd >= loop.max_cost_usd
    THEN <<TRUE, "cost_limit",
           "Limite de custo atingido ($" \o ToString(loop.max_cost_usd) \o ")">>
    ELSE IF loop.iterations_executed > 0 /\ loop.max_iterations_before_pause = 0
    THEN <<"ZeroDivisionError">>
    ELSE IF loop.iterations_executed > 0
            /\ PyMod(loop.iterations_executed, loop.max_iterations_before_pause) = 0
    THEN <<TRUE, "iteration_limit",
           "Pausa obrigat'oria ap'os " \o ToString(loop.max_iterations_before_pause)
               \o " itera,c~oes">>
    ELSE <<FALSE, None, None>>

\* check_limits marking the loop when a limit is reached
CheckLimitsMarkingLoop(id) ==
    IF id \notin DOMAIN loops
    THEN /\ call' = Response("check_limits", id, FALSE, <<>>, "HTTP404")
         /\ UNCHANGED <<flows, engine, sessions, intents, loops, actions, pauses, violations, now>>
    ELSE LET r == check_limits(loops[id], now)
         IN /\ IF r = <<"ZeroDivisionError">>
               THEN call' = Response("check_limits", id, FALSE, <<>>, "ZeroDivisionError")
               ELSE call' = Response("check_limits", id, TRUE, r, "")
            /\ loops' = IF r # <<"ZeroDivisionError">> /\ r[1] = TRUE
                        THEN [loops EXCEPT ![id].status = "limit_reached"]
                        ELSE loops
            /\ UNCHANGED <<flows, engine, sessions, intents, actions, pauses, violations, now>>

\* GET /loop/{id}/check-limits
CheckLimits(id) ==
    /\ IF id \notin DOMAIN loops
       THEN call' = Response("check_limits", id, FALSE, <<>>, "HTTP404")
       ELSE LET r == check_limits(loops[id], now)
            IN IF r = <<"ZeroDivisionError">>
               THEN call' = Response("check_limits", id, FALSE, <<>>, "ZeroDivisionError")
               ELSE call' = Response("check_limits", id, TRUE, r, "")
    /\ UNCHANGED <<flows, engine, sessions, intents, loops, actions, pauses, violations, now>>

\* the LoopPause row written by pause_loop; paused_at is its own clock reading
LoopPause(loop_id, reason, message, paused_by, action_required, t) ==
    [loop_id |-> loop_id, reason |-> reason, message |-> message,
     paused_by |-> paused_by, action_required |-> action_required,
     paused_at |-> t, resumed_at |-> NoTime, user_response |-> None]

\* pause_loop appending the LoopPause without counting it
PauseLoopUncounted(id, reason, message, paused_by, action_required) ==
    IF id \notin DOMAIN loops
    THEN /\ call' = Response("pause_loop", id, FALSE, <<>>, "HTTP404")
         /\ UNCHANGED <<flows, engine, sessions, intents, loops, actions, pauses, violations, now>>
    ELSE IF loops[id].status # "running"
    THEN /\ call' = Response("pause_loop", id, FALSE, <<loops[id].status>>, "ValueError")
         /\ UNCHANGED <<flows, engine, sessions, intents, loops, actions, pauses, violations, now>>
    ELSE /\ RoomInLedger
         /\ \E t2 \in {t \in {now, now + 1} : t <= MaxTime} :
              /\ loops' = [loops EXCEPT
                              ![id].status = "paused",
                              ![id].last_pause_reason = reason,
                              ![id].last_pause_at = now,
                              ![id].last_pause_message = message]
              /\ pauses' = Append(pauses,
                      LoopPause(id, reason, message, paused_by, action_required, t2))
              /\ now' = t2
         /\ call' = Response("pause_loop", id, TRUE, <<>>, "")
         /\ UNCHANGED <<flows, engine, sessions, intents, actions, violations>>

\* pause_loop refusing only a finished loop
PauseLoopUnlessFinished(id, reason, message, paused_by, action_required) ==
    IF id \notin DOMAIN loops
    THEN /\ call' = Response("pause_loop", id, FALSE, <<>>, "HTTP404")
         /\ UNCHANGED <<flows, engine, sessions, intents, loops, actions, pauses, violations, now>>
    ELSE IF loops[id].status \in {"completed", "cancelled"}
    THEN /\ call' = Response("pause_loop", id, FALSE, <<loops[id].status>>, "ValueError")
         /\ UNCHANGED <<flows, engine, sessions, intents, loops, actions, pauses, violations, now>>
    ELSE /\ RoomInLedger
         /\ \E t2 \in {t \in {now, now + 1} : t <= MaxTime} :
              /\ loops' = [loops EXCEPT
                              ![id].status = "paused",
                              ![id].pause_count = @ + 1,
                              ![id].last_pause_reason = reason,
                              ![id].last_pause_at = now,
                              ![id].last_pause_message = message]
              /\ pauses' = Append(pauses,
                      LoopPause(id, reason, message, paused_by, action_required, t2))
              /\ now' = t2
         /\ call' = Response("pause_loop", id, TRUE, <<>>, "")
         /\ UNCHANGED <<flows, engine, sessions, intents, actions, violations>>

\* POST /loop/{id}/pause -> AutonomousLoopService.pause_loop.  utcnow() is read
\* for last_pause_at and again for the LoopPause's paused_at: the second
\* reading is the first or a later one.
PauseLoop(id, reason, message, paused_by, action_required) ==
    IF id \notin DOMAIN loops
    THEN /\ call' = Response("pause_loop", id, FALSE, <<>>, "HTTP404")
         /\ UNCHANGED <<flows, engine, sessions, intents, loops, actions, pauses, violations, now>>
    ELSE IF loops[id].status # "running"
    THEN /\ call' = Response("pause_loop", id, FALSE, <<loops[id].status>>, "ValueError")
         /\ UNCHANGED <<flows, engine, sessions, intents, loops, actions, pauses, violations, now>>
    ELSE /\ RoomInLedger
         /\ \E t2 \in {t \in {now, now + 1} : t <= MaxTime} :
              /\ loops' = [loops EXCEPT
                              ![id].status = "paused",
                              ![id].pause_count = @ + 1,
                              ![id].last_pause_reason = reason,
                              ![id].last_pause_at = now,
                              ![id].last_pause_message = message]
              /\ pauses' = Append(pauses,
                      LoopPause(id, reason, message, paused_by, action_required, t2))
              /\ now' = t2
         /\ call' = Response("pause_loop", id, TRUE, <<>>, "")
         /\ UNCHANGED <<flows, engine, sessions, intents, actions, violations>>

\* select(LoopPause).where(loop_id == ...).where(paused_at == ...).first()
first_pause_at(loop_id, t) ==
    LET found == {k \in DOMAIN pauses :
                     pauses[k].loop_id = loop_id /\ pauses[k].paused_at = t}
    IN IF found = {} THEN 0 ELSE CHOOSE k \in found : \A j \in found : k <= j

\* resume_loop giving back to the deadline the time since the pause
ResumeLoopExtendingDeadline(id, user_response) ==
    IF id \notin DOMAIN loops
    THEN /\ call' = Response("resume_loop", id, FALSE, <<>>, "HTTP404")
         /\ UNCHANGED <<flows, engine, sessions, intents, loops, actions, pauses, violations, now>>
    ELSE IF loops[id].status # "paused"
    THEN /\ call' = Response("resume_loop", id, FALSE, <<loops[id].status>>, "ValueError")
         /\ UNCHANGED <<flows, engine, sessions, intents, loops, actions, pauses, violations, now>>
    ELSE LET k == IF user_response # None /\ user_response # ""
                     /\ loops[id].last_pause_at # NoTime
                  THEN first_pause_at(id, loops[id].last_pause_at)
                  ELSE 0
         IN /\ pauses' = IF k = 0 THEN pauses
                         ELSE [pauses EXCEPT ![k].resumed_at = now,
                                             ![k].user_response = user_response]
            /\ loops' = [loops EXCEPT
                            ![id].status = "running",
                            ![id].deadline = @ + (now - loops[id].last_pause_at)]
            /\ call' = ResponseTo("resume_loop", id, <<user_response>>, TRUE, <<>>, "")
            /\ UNCHANGED <<flows, engine, sessions, intents, actions, violations, now>>

\* resume_loop starting the counts of actions and iterations again
ResumeLoopResettingCounters(id, user_response) ==
    IF id \notin DOMAIN loops
    THEN /\ call' = Response("resume_loop", id, FALSE, <<>>, "HTTP404")
         /\ UNCHANGED <<flows, engine, sessions, intents, loops, actions, pauses, violations, now>>
    ELSE IF loops[id].status # "paused"
    THEN /\ call' = Response("resume_loop", id, FALSE, <<loops[id].status>>, "ValueError")
         /\ UNCHANGED <<flows, engine, sessions, intents, loops, actions, pauses, violations, now>>
    ELSE LET k == IF user_response # None /\ user_response # ""
                     /\ loops[id].last_pause_at # NoTime
                  THEN first_pause_at(id, loops[id].last_pause_at)
                  ELSE 0
         IN /\ pauses' = IF k = 0 THEN pauses
                         ELSE [pauses EXCEPT ![k].resumed_at = now,
                                             ![k].user_response = user_response]
            /\ loops' = [loops EXCEPT ![id].status = "running",
                                       ![id].actions_executed = 0,
                                       ![id].iterations_executed = 0]
            /\ call' = ResponseTo("resume_loop", id, <<user_response>>, TRUE, <<>>, "")
            /\ UNCHANGED <<flows, engine, sessions, intents, actions, violations, now>>

\* POST /loop/{id}/resume -> AutonomousLoopService.resume_loop
ResumeLoop(id, user_response) ==
    IF id \notin DOMAIN loops
    THEN /\ call' = Response("resume_loop", id, FALSE, <<>>, "HTTP404")
         /\ UNCHANGED <<flows, engine, sessions, intents, loops, actions, pauses, violations, now>>
    ELSE IF loops[id].status # "paused"
    THEN /\ call' = Response("resume_loop", id, FALSE, <<loops[id].status>>, "ValueError")
         /\ UNCHANGED <<flows, engine, sessions, intents, loops, actions, pauses, violations, now>>
    ELSE LET k == IF user_response # None /\ user_response # ""
                     /\ loops[id].last_pause_at # NoTime
                  THEN first_pause_at(id, loops[id].last_pause_at)
                  ELSE 0
         IN /\ pauses' = IF k = 0 THEN pauses
                         ELSE [pauses EXCEPT ![k].resumed_at = now,
                                             ![k].user_response = user_response]
            /\ loops' = [loops EXCEPT ![id].status = "running"]
            /\ call' = ResponseTo("resume_loop", id, <<user_response>>, TRUE, <<>>, "")
            /\ UNCHANGED <<flows, engine, sessions, intents, actions, violations, now>>

\* the LoopAction row written by record_action
LoopAction(loop_id, action_type, description, agent_name, success, cost_usd, duration_seconds) ==
    [loop_id |-> loop_id, action_type |-> action_type, description |-> description,
     agent_name |-> agent_name, success |-> success, cost_usd |-> cost_usd,
     duration_seconds |-> duration_seconds]

\* record_action charging the cost of successful actions only
RecordActionChargeOnSuccess(id, action_type, description, agent_name, success, cost_usd, duration_seconds) ==
    IF id \notin DOMAIN loops
    THEN /\ call' = Response("record_action", id, FALSE, <<>>, "HTTP404")
         /\ UNCHANGED <<flows, engine, sessions, intents, loops, actions, pauses, violations, now>>
    ELSE /\ RoomInLedger
         /\ actions' = Append(actions,
                LoopAction(id, action_type, description, agent_name, success,
                           cost_usd, duration_seconds))
         /\ loops' = [loops EXCEPT
                         ![id].actions_executed = @ + 1,
                         ![id].cost_accumulated_usd =
                             IF success THEN @ + cost_usd ELSE @,
                         ![id].elapsed_seconds = @ + duration_seconds,
                         ![id].last_action = description]
         /\ call' = Response("record_action", id, TRUE,
                             <<success, cost_usd, duration_seconds>>, "")
         /\ UNCHANGED <<flows, engine, sessions, intents, pauses, violations, now>>

\* record_action counting only the actions that succeeded
RecordActionCountSuccessOnly(id, action_type, description, agent_name, success, cost_usd, duration_seconds) ==
    IF id \notin DOMAIN loops
    THEN /\ call' = Response("record_action", id, FALSE, <<>>, "HTTP404")
         /\ UNCHANGED <<flows, engine, sessions, intents, loops, actions, pauses, violations, now>>
    ELSE /\ RoomInLedger
         /\ actions' = Append(actions,
                LoopAction(id, action_type, description, agent_name, success,
                           cost_usd, duration_seconds))
         /\ loops' = [loops EXCEPT
                         ![id].actions_executed = IF success THEN @ + 1 ELSE @,
                         ![id].cost_accumulated_usd = @ + cost_usd,
                         ![id].elapsed_seconds = @ + duration_seconds,
                         ![id].last_action = description]
         /\ call' = Response("record_action", id, TRUE,
                             <<success, cost_usd, duration_seconds>>, "")
         /\ UNCHANGED <<flows, engine, sessions, intents, pauses, violations, now>>

\* record_action counting every action as an iteration
RecordActionCountingIterations(id, action_type, description, agent_name, success, cost_usd, duration_seconds) ==
    IF id \notin DOMAIN loops
    THEN /\ call' = Response("record_action", id, FALSE, <<>>, "HTTP404")
         /\ UNCHANGED <<flows, engine, sessions, intents, loops, actions, pauses, violations, now>>
    ELSE /\ RoomInLedger
         /\ actions' = Append(actions,
                LoopAction(id, action_type, description, agent_name, success,
                           cost_usd, duration_seconds))
         /\ loops' = [loops EXCEPT
                         ![id].actions_executed = @ + 1,
                         ![id].iterations_executed = @ + 1,
                         ![id].cost_accumulated_usd = @ + cost_usd,
                         ![id].elapsed_seconds = @ + duration_seconds,
                         ![id].last_action = description]
         /\ call' = Response("record_action", id, TRUE,
                             <<success, cost_usd, duration_seconds>>, "")
         /\ UNCHANGED <<flows, engine, sessions, intents, pauses, violations, now>>

\* POST /loop/{id}/action -> AutonomousLoopService.record_action: no check of
\* the status or of the ceilings precedes the writes
RecordAction(id, action_type, description, agent_name, success, cost_usd, duration_seconds) ==
    IF id \notin DOMAIN loops
    THEN /\ call' = Response("record_action", id, FALSE, <<>>, "HTTP404")
         /\ UNCHANGED <<flows, engine, sessions, intents, loops, actions, pauses, violations, now>>
    ELSE /\ RoomInLedger
         /\ actions' = Append(actions,
                LoopAction(id, action_type, description, agent_name, success,
                           cost_usd, duration_seconds))
         /\ loops' = [loops EXCEPT
                         ![id].actions_executed = @ + 1,
                         ![id].cost_accumulated_usd = @ + cost_usd,
                         ![id].elapsed_seconds = @ + duration_seconds,
                         ![id].last_action = description]
         /\ call' = Response("record_action", id, TRUE,
                             <<success, cost_usd, duration_seconds>>, "")
         /\ UNCHANGED <<flows, engine, sessions, intents, pauses, violations, now>>

\* POST /loop/{id}/check-action -> AutonomousLoopService.check_action_against_intent
LoopCheckAction(id, action_description, attempted_by) ==
    IF id \notin DOMAIN loops
    THEN /\ call' = Response("loop_check_action", id, FALSE, <<>>, "HTTP404")
         /\ UNCHANGED <<flows, engine, sessions, intents, loops, actions, pauses, violations, now>>
    ELSE IF loops[id].intent_id \notin DOMAIN intents
    THEN /\ call' = Response("loop_check_action", id, TRUE, <<TRUE, None>>, "")
         /\ UNCHANGED <<flows, engine, sessions, intents, loops, actions, pauses, violations, now>>
    ELSE check_action_against_intent("loop_check_action", id, loops[id].intent_id,
                                     action_description, attempted_by)

\* complete_loop leaving the progress where it was
CompleteLoopKeepingProgress(id, result) ==
    IF id \notin DOMAIN loops
    THEN /\ call' = Response("complete_loop", id, FALSE, <<>>, "HTTP404")
         /\ UNCHANGED <<flows, engine, sessions, intents, loops, actions, pauses, violations, now>>
    ELSE IF loops[id].status \notin {"running", "paused"}
    THEN /\ call' = Response("complete_loop", id, FALSE, <<loops[id].status>>, "ValueError")
         /\ UNCHANGED <<flows, engine, sessions, intents, loops, actions, pauses, violations, now>>
    ELSE /\ loops' = [loops EXCEPT
                         ![id].status = "completed",
                         ![id].completed_at = now,
                         ![id].result = result]
         /\ call' = ResponseTo("complete_loop", id, <<result>>, TRUE, <<>>, "")
         /\ UNCHANGED <<flows, engine, sessions, intents, actions, pauses, violations, now>>

\* POST /loop/{id}/complete -> AutonomousLoopService.complete_loop
CompleteLoop(id, result) ==
    IF id \notin DOMAIN loops
    THEN /\ call' = Response("complete_loop", id, FALSE, <<>>, "HTTP404")
         /\ UNCHANGED <<flows, engine, sessions, intents, loops, actions, pauses, violations, now>>
    ELSE IF loops[id].status \notin {"running", "paused"}
    THEN /\ call' = Response("complete_loop", id, FALSE, <<loops[id].status>>, "ValueError")
         /\ UNCHANGED <<flows, engine, sessions, intents, loops, actions, pauses, violations, now>>
    ELSE /\ loops' = [loops EXCEPT
                         ![id].status = "completed",
                         ![id].completed_at = now,
                         ![id].result = result,
                         ![id].progress_percentage = 100]
         /\ call' = ResponseTo("complete_loop", id, <<result>>, TRUE, <<>>, "")
         /\ UNCHANGED <<flows, engine, sessions, intents, actions, pauses, violations, now>>

\* cancel_loop that refuses only a loop that is already Cancelled
CancelLoopUnlessCancelled(id, reason) ==
    IF id \notin DOMAIN loops
    THEN /\ call' = Response("cancel_loop", id, FALSE, <<>>, "HTTP404")
         /\ UNCHANGED <<flows, engine, sessions, intents, loops, actions, pauses, violations, now>>
    ELSE IF loops[id].status = "cancelled"
    THEN /\ call' = Response("cancel_loop", id, FALSE, <<loops[id].status>>, "ValueError")
         /\ UNCHANGED <<flows, engine, sessions, intents, loops, actions, pauses, violations, now>>
    ELSE /\ loops' = [loops EXCEPT
                         ![id].status = "cancelled",
                         ![id].cancelled_at = now,
                         ![id].result = "Cancelado: " \o reason]
         /\ call' = Response("cancel_loop", id, TRUE, <<>>, "")
         /\ UNCHANGED <<flows, engine, sessions, intents, actions, pauses, violations, now>>

\* cancel_loop refusing a loop that was never started
CancelLoopOnlyStarted(id, reason) ==
    IF id \notin DOMAIN loops
    THEN /\ call' = Response("cancel_loop", id, FALSE, <<>>, "HTTP404")
         /\ UNCHANGED <<flows, engine, sessions, intents, loops, actions, pauses, violations, now>>
    ELSE IF loops[id].status \in {"pending", "completed", "cancelled"}
    THEN /\ call' = Response("cancel_loop", id, FALSE, <<loops[id].status>>, "ValueError")
         /\ UNCHANGED <<flows, engine, sessions, intents, loops, actions, pauses, violations, now>>
    ELSE /\ loops' = [loops EXCEPT
                         ![id].status = "cancelled",
                         ![id].cancelled_at = now,
                         ![id].result = "Cancelado: " \o reason]
         /\ call' = ResponseTo("cancel_loop", id, <<reason>>, TRUE, <<>>, "")
         /\ UNCHANGED <<flows, engine, sessions, intents, actions, pauses, violations, now>>

\* POST /loop/{id}/cancel -> AutonomousLoopService.cancel_loop
CancelLoop(id, reason) ==
    IF id \notin DOMAIN loops
    THEN /\ call' = Response("cancel_loop", id, FALSE, <<>>, "HTTP404")
         /\ UNCHANGED <<flows, engine, sessions, intents, loops, actions, pauses, violations, now>>
    ELSE IF loops[id].status \in {"completed", "cancelled"}
    THEN /\ call' = Response("cancel_loop", id, FALSE, <<loops[id].status>>, "ValueError")
         /\ UNCHANGED <<flows, engine, sessions, intents, loops, actions, pauses, violations, now>>
    ELSE /\ loops' = [loops EXCEPT
                         ![id].status = "cancelled",
                         ![id].cancelled_at = now,
                         ![id].result = "Cancelado: " \o reason]
         /\ call' = ResponseTo("cancel_loop", id, <<reason>>, TRUE, <<>>, "")
         /\ UNCHANGED <<flows, engine, sessions, intents, actions, pauses, violations, now>>

\* time passes between requests
Tick ==
    /\ now < MaxTime
    /\ now' = now + 1
    /\ UNCHANGED <<flows, engine, sessions, intents, loops, actions, pauses, violations, call>>

(***************************************************************************)
(* The service: an empty database, then any request in any order           *)
(***************************************************************************)
Init ==
    /\ intents = <<>>
    /\ loops = <<>>
    /\ actions = <<>>
    /\ pauses = <<>>
    /\ violations = <<>>
    /\ now = 0
    /\ call = NoResponse
    /\ sessions = NoSessions
    /\ workflows = <<>>
    /\ steps = <<>>
    /\ projects = <<>>
    /\ products = <<>>
    /\ product_steps = <<>>

\* requests on intent contracts
NextIntent ==
    \/ \E payload \in IntentPayloads : CreateIntent(payload)
    \/ \E id \in RequestIntentIds, v \in Validators : ValidateIntent(id, v)
    \/ \E id \in RequestIntentIds : FreezeIntent(id)
    \/ \E id \in RequestIntentIds, d \in ActionDescriptions, a \in Agents :
          CheckAction(id, d, a)

\* the intent contracts on their own
SpecIntent == Init /\ [][NextIntent \/ Tick]_vars

\* the intent contracts and the loops that reference them; create_loop reads
\* no clock, and the requests follow each other within one reading of it
Next ==
    \/ NextIntent
    \/ \E p \in ProjectIds, id \in RequestIntentIds, c \in LoopCeilings :
          CreateLoop(p, id, c)
    \/ \E id \in RequestLoopIds, d \in ActionDescriptions, a \in Agents :
          LoopCheckAction(id, d, a)

Spec == Init /\ [][Next]_vars

\* The loop controller on its own: the database holds one contract that went
\* through create, validate and freeze, and the Pending loop that create_loop
\* made for it; the requests that follow are those on that loop.
FrozenIntent(payload) ==
    [ProjectIntent(payload) EXCEPT
        !.status = "frozen", !.validated_at = 0, !.validated_by = "user",
        !.frozen_at = 0,
        !.intent_hash = sha256(intent_json(ProjectIntent(payload)))]

InitLoop ==
    /\ \E payload \in {p \in IntentPayloads : missing_fields(p) = <<>>
                                               /\ p.risk_level = "low"} :
          intents = <<FrozenIntent(payload)>>
    /\ \E p \in ProjectIds, c \in LoopCeilings : loops = <<ExecutionLoop(p, 1, c)>>
    /\ actions = <<>>
    /\ pauses = <<>>
    /\ violations = <<>>
    /\ now = 0
    /\ call = NoResponse
    /\ sessions = NoSessions
    /\ workflows = <<>>
    /\ steps = <<>>
    /\ projects = <<>>
    /\ products = <<>>
    /\ product_steps = <<>>

NextLoop ==
    \/ \E id \in RequestLoopIds : StartLoop(id)
    \/ \E id \in RequestLoopIds : CheckLimits(id)
    \/ \E id \in RequestLoopIds, r \in UserPauseReasons :
          PauseLoop(id, r, "pausa", "user", None)
    \/ \E id \in RequestLoopIds, u \in UserResponses : ResumeLoop(id, u)
    \/ \E id \in RequestLoopIds, t \in ActionTypes, d \in RecordDescriptions,
          a \in Agents, r \in ActionReports :
          RecordAction(id, t, d, a, r[1], r[2], r[3])
    \/ \E id \in RequestLoopIds, r \in Results : CompleteLoop(id, r)
    \/ \E id \in RequestLoopIds, r \in CancelReasons : CancelLoop(id, r)
    \/ Tick

SpecLoop == InitLoop /\ [][NextLoop]_vars

\* check_limits as a function of the loop row and of the clock: the row is any
\* started or unstarted loop with counters and ceilings in small ranges
\* (iterations_executed is written by the driver of the loop, not by the
\* controller), and the only requests are check_limits and the passing of time.
MaxCounter == 2
MaxIterations == 3

LimitLoops ==
    { [ExecutionLoop(1, 1, [max_time_minutes |-> 1, max_actions |-> ma,
                            max_cost_usd |-> mc,
                            max_iterations_before_pause |-> mi])
         EXCEPT !.status = IF started THEN "running" ELSE "pending",
                !.started_at = IF started THEN 0 ELSE NoTime,
                !.deadline = IF started THEN 1 ELSE NoTime,
                !.actions_executed = a,
                !.cost_accumulated_usd = c,
                !.iterations_executed = i] :
        started \in BOOLEAN, ma \in 1..MaxCounter, mc \in 1..MaxCounter,
        mi \in 1..MaxCounter, a \in 0..MaxCounter, c \in 0..MaxCounter,
        i \in 0..MaxIterations }

InitLimits ==
    /\ \E payload \in {p \in IntentPayloads : p.intent_type = "improve"} :
          intents = <<FrozenIntent(payload)>>
    /\ \E loop \in LimitLoops : loops = <<loop>>
    /\ actions = <<>>
    /\ pauses = <<>>
    /\ violations = <<>>
    /\ now = 0
    /\ call = NoResponse
    /\ sessions = NoSessions
    /\ workflows = <<>>
    /\ steps = <<>>
    /\ projects = <<>>
    /\ products = <<>>
    /\ product_steps = <<>>

NextLimits ==
    \/ \E id \in RequestLoopIds : CheckLimits(id)
    \/ Tick

SpecLimits == InitLimits /\ [][NextLimits]_vars

(***************************************************************************)
(* Requests that overlap.  The handlers are plain `def` functions, which   *)
(* FastAPI runs on a pool of threads, each with the Session of its own     *)
(* get_session; no row is locked and no version column is checked.  A      *)
(* request loads the row with session.get, computes on that copy and, at   *)
(* commit, writes the columns whose value it changed.                      *)
(***************************************************************************)
\* record_action(loop_id, ...): loop = session.get(ExecutionLoop, loop_id)
LoadLoop(s, op, id, arg) ==
    /\ sessions[s] = NoSession
    /\ IF id \notin DOMAIN loops
       THEN /\ call' = Response(op, id, FALSE, <<>>, "HTTP404")
            /\ UNCHANGED sessions
       ELSE /\ sessions' = [sessions EXCEPT
                               ![s] = [op |-> op, id |-> id, row |-> loops[id],
                                       arg |-> arg]]
            /\ UNCHANGED call
    /\ UNCHANGED <<flows, engine, intents, loops, actions, pauses, violations, now>>

\* AutonomousLoopService.record_action on the loaded row, up to its commit:
\* the LoopAction is inserted and the counters are written as the loaded
\* value plus the amount of this action (a column whose value the request
\* did not change is not part of the UPDATE)
RecordActionCommit(s) ==
    /\ sessions[s].op = "record_action"
    /\ RoomInLedger
    /\ LET id == sessions[s].id
           loop == sessions[s].row
           arg == sessions[s].arg
       IN /\ actions' = Append(actions,
                 LoopAction(id, arg[1], arg[2], arg[3], arg[4], arg[5], arg[6]))
          /\ loops' = [loops EXCEPT
                          ![id].actions_executed = loop.actions_executed + 1,
                          ![id].cost_accumulated_usd =
                              IF arg[5] # 0 THEN loop.cost_accumulated_usd + arg[5] ELSE @,
                          ![id].elapsed_seconds =
                              IF arg[6] # 0 THEN loop.elapsed_seconds + arg[6] ELSE @,
                          ![id].last_action = arg[2]]
          /\ call' = Response("record_action", id, TRUE, <<arg[4], arg[5], arg[6]>>, "")
    /\ sessions' = [sessions EXCEPT ![s] = NoSession]
    /\ UNCHANGED <<flows, engine, intents, pauses, violations, now>>

\* record_action requests of several agents on the loops of InitLoop
NextConcurrent ==
    \/ \E s \in Sessions, id \in RequestLoopIds, t \in ActionTypes,
          d \in RecordDescriptions, a \in Agents, r \in ActionReports :
          LoadLoop(s, "record_action", id, <<t, d, a, r[1], r[2], r[3]>>)
    \/ \E s \in Sessions : RecordActionCommit(s)

SpecConcurrent == InitLoop /\ [][NextConcurrent]_vars

\* a request that fails on the row it loaded: the ValueError becomes HTTP 400
RefuseLoaded(s) ==
    /\ call' = Response(sessions[s].op, sessions[s].id, FALSE,
                        <<sessions[s].row.status>>, "ValueError")
    /\ sessions' = [sessions EXCEPT ![s] = NoSession]
    /\ UNCHANGED <<flows, engine, intents, loops, actions, pauses, violations, now>>

\* the request of session s returns normally
ReturnLoaded(s) ==
    /\ call' = Response(sessions[s].op, sessions[s].id, TRUE, <<>>, "")
    /\ sessions' = [sessions EXCEPT ![s] = NoSession]

\* AutonomousLoopService.pause_loop on the loaded row, up to its commit
PauseLoopCommit(s) ==
    /\ sessions[s].op = "pause_loop"
    /\ IF sessions[s].row.status # "running"
       THEN RefuseLoaded(s)
       ELSE /\ RoomInLedger
            /\ \E t2 \in {t \in {now, now + 1} : t <= MaxTime} :
                 /\ loops' = [loops EXCEPT
                                 ![sessions[s].id].status = "paused",
                                 ![sessions[s].id].pause_count =
                                     sessions[s].row.pause_count + 1,
                                 ![sessions[s].id].last_pause_reason = sessions[s].arg[1],
                                 ![sessions[s].id].last_pause_at = now,
                                 ![sessions[s].id].last_pause_message = sessions[s].arg[2]]
                 /\ pauses' = Append(pauses,
                         LoopPause(sessions[s].id, sessions[s].arg[1], sessions[s].arg[2],
                                   sessions[s].arg[3], sessions[s].arg[4], t2))
                 /\ now' = t2
            /\ ReturnLoaded(s)
            /\ UNCHANGED <<flows, engine, intents, actions, violations>>

\* AutonomousLoopService.resume_loop on the loaded row, up to its commit
ResumeLoopCommit(s) ==
    /\ sessions[s].op = "resume_loop"
    /\ IF sessions[s].row.status # "paused"
       THEN RefuseLoaded(s)
       ELSE LET user_response == sessions[s].arg[1]
                k == IF user_response # None /\ user_response # ""
                        /\ sessions[s].row.last_pause_at # NoTime
                     THEN first_pause_at(sessions[s].id, sessions[s].row.last_pause_at)
                     ELSE 0
            IN /\ pauses' = IF k = 0 THEN pauses
                            ELSE [pauses EXCEPT ![k].resumed_at = now,
                                                ![k].user_response = user_response]
               /\ loops' = [loops EXCEPT ![sessions[s].id].status = "running"]
               /\ ReturnLoaded(s)
               /\ UNCHANGED <<flows, engine, intents, actions, violations, now>>

\* AutonomousLoopService.complete_loop on the loaded row, up to its commit
CompleteLoopCommit(s) ==
    /\ sessions[s].op = "complete_loop"
    /\ IF sessions[s].row.status \notin {"running", "paused"}
       THEN RefuseLoaded(s)
       ELSE /\ loops' = [loops EXCEPT
                            ![sessions[s].id].status = "completed",
                            ![sessions[s].id].completed_at = now,
                            ![sessions[s].id].result = sessions[s].arg[1],
                            ![sessions[s].id].progress_percentage = 100]
            /\ ReturnLoaded(s)
            /\ UNCHANGED <<flows, engine, intents, actions, pauses, violations, now>>

\* AutonomousLoopService.cancel_loop on the loaded row, up to its commit
CancelLoopCommit(s) ==
    /\ sessions[s].op = "cancel_loop"
    /\ IF sessions[s].row.status \in {"completed", "cancelled"}
       THEN RefuseLoaded(s)
       ELSE /\ loops' = [loops EXCEPT
                            ![sessions[s].id].status = "cancelled",
                            ![sessions[s].id].cancelled_at = now,
                            ![sessions[s].id].result = "Cancelado: " \o sessions[s].arg[1]]
            /\ ReturnLoaded(s)
            /\ UNCHANGED <<flows, engine, intents, actions, pauses, violations, now>>

\* a loop of InitLoop after start_loop (the four operations read no ceiling)
InitOverlap ==
    /\ \E payload \in {p \in IntentPayloads : missing_fields(p) = <<>>
                                               /\ p.risk_level = "low"} :
          intents = <<FrozenIntent(payload)>>
    /\ \E p \in ProjectIds, c \in {x \in LoopCeilings : x.max_time_minutes = 1} :
          loops = <<[ExecutionLoop(p, 1, c) EXCEPT
                        !.status = "running", !.started_at = 0,
                        !.deadline = c.max_time_minutes]>>
    /\ actions = <<>>
    /\ pauses = <<>>
    /\ violations = <<>>
    /\ now = 0
    /\ call = NoResponse
    /\ sessions = NoSessions
    /\ workflows = <<>>
    /\ steps = <<>>
    /\ projects = <<>>
    /\ products = <<>>
    /\ product_steps = <<>>

\* pause, resume, complete and cancel requests of several callers on a
\* started loop
NextOverlap ==
    \/ \E s \in Sessions, id \in RequestLoopIds, r \in UserPauseReasons :
          LoadLoop(s, "pause_loop", id, <<r, "pausa", "user", None>>)
    \/ \E s \in Sessions, id \in RequestLoopIds, u \in UserResponses :
          LoadLoop(s, "resume_loop", id, <<u>>)
    \/ \E s \in Sessions, id \in RequestLoopIds, r \in Results :
          LoadLoop(s, "complete_loop", id, <<r>>)
    \/ \E s \in Sessions, id \in RequestLoopIds, r \in CancelReasons :
          LoadLoop(s, "cancel_loop", id, <<r>>)
    \/ \E s \in Sessions : PauseLoopCommit(s)
    \/ \E s \in Sessions : ResumeLoopCommit(s)
    \/ \E s \in Sessions : CompleteLoopCommit(s)
    \/ \E s \in Sessions : CancelLoopCommit(s)

SpecOverlap == InitOverlap /\ [][NextOverlap]_vars

(***************************************************************************)
(* Properties of the intent contract and of loop creation (Spec)           *)
(***************************************************************************)

\* C1: create_loop succeeds if and only if the intent it names exists and is
\* Frozen when the call is made; a successful call adds one Pending loop with
\* every counter at zero, a failed call adds no loop.
C1_CreateLoopIffFrozen ==
    [][Requested("create_loop") =>
          LET iid == call'.id
              frozen == iid \in DOMAIN intents /\ intents[iid].status = "frozen"
          IN /\ call'.ok <=> frozen
             /\ ~call'.ok => loops' = loops
             /\ call'.ok =>
                   /\ Len(loops') = Len(loops) + 1
                   /\ SubSeq(loops', 1, Len(loops)) = loops
                   /\ LET new == loops'[Len(loops')]
                      IN /\ new.intent_id = iid
                         /\ new.status = "pending"
                         /\ new.actions_executed = 0
                         /\ new.cost_accumulated_usd = 0
                         /\ new.elapsed_seconds = 0
                         /\ new.iterations_executed = 0]_vars

\* a loop exists and a later create_loop was refused
C1_Witness ==
    /\ Len(loops) >= 1
    /\ call.op = "create_loop"
    /\ ~call.ok

\* C2: the intent referenced by an existing loop is Frozen in every state.
C2_LoopIntentStaysFrozen ==
    \A l \in DOMAIN loops :
        /\ loops[l].intent_id \in DOMAIN intents
        /\ intents[loops[l].intent_id].status = "frozen"

\* C3: a Frozen intent never becomes Draft or Validated again, and frozen_at
\* and intent_hash, once written, are never written again.
C3_FreezeIsOneWay ==
    [][\A i \in DOMAIN intents :
          /\ intents[i].status = "frozen" =>
                intents'[i].status \notin {"draft", "validated"}
          /\ intents[i].frozen_at # NoTime =>
                /\ intents'[i].frozen_at = intents[i].frozen_at
                /\ ~(Requested("freeze_intent") /\ call'.id = i /\ call'.ok)]_vars

\* the hash over the eight hashed fields, recomputed from the current values
RecomputedHash(intent) == sha256(intent_json(intent))

HashedFields(intent) ==
    <<intent.product_name, intent.product_description, intent.business_goal,
      intent.target_audience, intent.success_criteria, intent.constraints,
      intent.risk_level, intent.main_features>>

\* C4: whenever an intent is Frozen its stored intent_hash is the hash of its
\* current hashed fields, and once a freeze has happened no step changes a
\* hashed field or the stored hash.
C4_FrozenHashMatches ==
    [][\A i \in DOMAIN intents' :
          /\ intents'[i].status = "frozen" =>
                intents'[i].intent_hash = RecomputedHash(intents'[i])
          /\ (i \in DOMAIN intents /\ intents[i].frozen_at # NoTime) =>
                /\ HashedFields(intents'[i]) = HashedFields(intents[i])
                /\ intents'[i].intent_hash = intents[i].intent_hash]_vars

\* a contract with optional features has just been frozen, some time after
\* it was validated
C4_Witness ==
    \E i \in DOMAIN intents :
        /\ call.op = "freeze_intent" /\ call.id = i /\ call.ok
        /\ intents[i].status = "frozen"
        /\ intents[i].main_features # None
        /\ intents[i].frozen_at > intents[i].validated_at

\* C5: a check against a Frozen contract always returns normally; a denial
\* returns (false, reason) and appends exactly one Violation with disposition
\* "blocked", an allowance returns (true, none) and appends nothing.
C5_DenialReturnedAndRecorded ==
    [][\A i \in DOMAIN intents :
          (/\ \/ Requested("check_action") /\ call'.id = i
              \/ /\ Requested("loop_check_action")
                 /\ call'.id \in DOMAIN loops
                 /\ loops[call'.id].intent_id = i
           /\ intents[i].status = "frozen") =>
             /\ call'.ok
             /\ \/ /\ call'.ret = <<TRUE, None>>
                   /\ violations' = violations
                \/ /\ call'.ret[1] = FALSE
                   /\ call'.ret[2] # None
                   /\ Len(violations') = Len(violations) + 1
                   /\ SubSeq(violations', 1, Len(violations)) = violations
                   /\ violations'[Len(violations')].intent_id = i
                   /\ violations'[Len(violations')].action_taken = "blocked"]_vars

(***************************************************************************)
(* Properties of the loop controller (SpecLoop, SpecLimits)                *)
(***************************************************************************)
TerminalStatus == {"completed", "cancelled", "failed"}

\* C6: record_action never succeeds on a loop whose actions_executed has
\* reached max_actions or whose cost_accumulated has reached max_cost, and
\* actions_executed <= max_actions in every state.
C6_ActionCeilingIsHard ==
    [][/\ (Requested("record_action") /\ call'.ok) =>
             /\ loops[call'.id].actions_executed < loops[call'.id].max_actions
             /\ loops[call'.id].cost_accumulated_usd < loops[call'.id].max_cost_usd
       /\ \A l \in DOMAIN loops' :
             loops'[l].actions_executed <= loops'[l].max_actions]_vars

\* C7: record_action on a loop in a terminal status fails and appends no
\* LoopAction, and the counters of a terminal loop never change.
C7_TerminalLoopRecordsNothing ==
    [][\A l \in DOMAIN loops :
          loops[l].status \in TerminalStatus =>
             /\ (Requested("record_action") /\ call'.id = l) =>
                    (~call'.ok /\ actions' = actions)
             /\ loops'[l].actions_executed = loops[l].actions_executed
             /\ loops'[l].cost_accumulated_usd = loops[l].cost_accumulated_usd
             /\ loops'[l].elapsed_seconds = loops[l].elapsed_seconds]_vars

\* the status changes the controller allows, each with its operation
AllowedTransitions ==
    { <<"pending", "running", "start_loop">>,
      <<"running", "paused", "pause_loop">>,
      <<"paused", "running", "resume_loop">>,
      <<"running", "completed", "complete_loop">>,
      <<"paused", "completed", "complete_loop">>,
      <<"pending", "cancelled", "cancel_loop">>,
      <<"running", "cancelled", "cancel_loop">>,
      <<"paused", "cancelled", "cancel_loop">> }

\* C8: every change of a loop's status is one of the allowed transitions, made
\* by the operation it belongs to and on the loop the request names, and the
\* status of a Completed or Cancelled loop never changes.
C8_StatusTransitions ==
    [][\A l \in DOMAIN loops :
          /\ loops'[l].status # loops[l].status =>
                /\ <<loops[l].status, loops'[l].status, call'.op>> \in AllowedTransitions
                /\ call'.n # call.n /\ call'.id = l /\ call'.ok
          /\ loops[l].status \in {"completed", "cancelled"} =>
                loops'[l].status = loops[l].status]_vars

\* a loop that was paused and then cancelled has just refused a request
C8_Witness ==
    \E l \in DOMAIN loops :
        /\ loops[l].status = "cancelled"
        /\ loops[l].pause_count > 0
        /\ call.op \in {"cancel_loop", "complete_loop", "resume_loop"}
        /\ call.id = l
        /\ ~call.ok

\* the conditions of check_limits in their order, for loop row and clock
LimitConditions(loop, t) ==
    << <<loop.deadline # NoTime /\ t >= loop.deadline, "time_limit">>,
       <<loop.actions_executed >= loop.max_actions, "action_limit">>,
       <<loop.cost_accumulated_usd >= loop.max_cost_usd, "cost_limit">>,
       <<loop.iterations_executed > 0
           /\ loop.iterations_executed % loop.max_iterations_before_pause = 0,
         "iteration_limit">> >>

\* C9: check_limits reports the first condition that holds, in the order
\* TimeLimit, ActionLimit, CostLimit, IterationLimit, with a message, and
\* (false, none, none) when none holds.
C9_CheckLimitsPriority ==
    [][(Requested("check_limits") /\ call'.id \in DOMAIN loops) =>
          LET conds == LimitConditions(loops[call'.id], now)
              hits == {k \in 1..4 : conds[k][1]}
              r == call'.ret
          IN /\ call'.ok
             /\ hits = {} => r = <<FALSE, None, None>>
             /\ hits # {} =>
                   /\ r[1] = TRUE
                   /\ \E k \in hits : /\ \A j \in hits : k <= j
                                      /\ r[2] = conds[k][2]
                   /\ r[3] # None]_vars

\* the deadline has passed, the action ceiling is reached too, and the answer
\* is TimeLimit
C9_Witness ==
    /\ call.op = "check_limits"
    /\ call.ok
    /\ call.id \in DOMAIN loops
    /\ loops[call.id].deadline # NoTime
    /\ now >= loops[call.id].deadline
    /\ loops[call.id].actions_executed >= loops[call.id].max_actions
    /\ call.ret[2] = "time_limit"

\* C10: a successful record_action appends exactly one LoopAction, adds 1 to
\* actions_executed, the action's cost to cost_accumulated and its duration
\* to elapsed_seconds, whatever its success flag, and changes neither status,
\* pause_count, iterations_executed nor deadline.
C10_RecordActionCounts ==
    [][(Requested("record_action") /\ call'.ok) =>
          LET l == call'.id
              success == call'.ret[1]
              cost == call'.ret[2]
              duration == call'.ret[3]
          IN /\ Len(actions') = Len(actions) + 1
             /\ SubSeq(actions', 1, Len(actions)) = actions
             /\ actions'[Len(actions')].loop_id = l
             /\ actions'[Len(actions')].success = success
             /\ actions'[Len(actions')].cost_usd = cost
             /\ actions'[Len(actions')].duration_seconds = duration
             /\ loops'[l].actions_executed = loops[l].actions_executed + 1
             /\ loops'[l].cost_accumulated_usd = loops[l].cost_accumulated_usd + cost
             /\ loops'[l].elapsed_seconds = loops[l].elapsed_seconds + duration
             /\ loops'[l].status = loops[l].status
             /\ loops'[l].pause_count = loops[l].pause_count
             /\ loops'[l].iterations_executed = loops[l].iterations_executed
             /\ loops'[l].deadline = loops[l].deadline
             /\ \A m \in DOMAIN loops : m # l => loops'[m] = loops[m]]_vars

\* a failed action with a cost has just been recorded after another action
C10_Witness ==
    /\ call.op = "record_action"
    /\ call.ok
    /\ call.ret[1] = FALSE
    /\ call.ret[2] > 0
    /\ loops[call.id].actions_executed = 2
    /\ loops[call.id].cost_accumulated_usd >= call.ret[2]

\* the LoopPause rows of loop l, and those of them that are open
PauseRows(l) == {k \in DOMAIN pauses : pauses[k].loop_id = l}
OpenPauseRows(l) == {k \in PauseRows(l) : pauses[k].resumed_at = NoTime}

\* C11: pause_loop succeeds only on a Running loop; each success adds one to
\* pause_count and nothing else changes it, and in every state pause_count is
\* the number of LoopPause rows of the loop.
C11_PauseCountMatchesLedger ==
    /\ [](\A l \in DOMAIN loops : loops[l].pause_count = Cardinality(PauseRows(l)))
    /\ [][\A l \in DOMAIN loops :
             IF Requested("pause_loop") /\ call'.id = l /\ call'.ok
             THEN /\ loops[l].status = "running"
                  /\ loops'[l].pause_count = loops[l].pause_count + 1
             ELSE loops'[l].pause_count = loops[l].pause_count]_vars

\* a loop was paused twice and both pauses are on record
C11_Witness ==
    \E l \in DOMAIN loops :
        /\ loops[l].pause_count = 2
        /\ Cardinality(PauseRows(l)) = 2
        /\ call.op = "pause_loop" /\ call.id = l /\ call.ok

\* C12: resume_loop succeeds only on a Paused loop and leaves the newest
\* LoopPause of the loop with resumed_at set (and with the user response, when
\* one was given); no LoopPause is open while the loop is Running and at most
\* one is open at any time.
C12_ResumeClosesLastPause ==
    /\ [](\A l \in DOMAIN loops :
             /\ Cardinality(OpenPauseRows(l)) <= 1
             /\ loops[l].status = "running" => OpenPauseRows(l) = {})
    /\ [][\A l \in DOMAIN loops :
             (Requested("resume_loop") /\ call'.id = l /\ call'.ok) =>
                /\ loops[l].status = "paused"
                /\ PauseRows(l) # {}
                /\ LET k == CHOOSE j \in PauseRows(l) : \A i \in PauseRows(l) : i <= j
                   IN /\ pauses'[k].resumed_at # NoTime
                      /\ call'.arg[1] # None =>
                            pauses'[k].user_response = call'.arg[1]]_vars

\* the statuses in which each operation is allowed
AllowedStatus ==
    [start_loop |-> {"pending"}, pause_loop |-> {"running"},
     resume_loop |-> {"paused"}, complete_loop |-> {"running", "paused"},
     cancel_loop |-> {"pending", "running", "paused"}]

\* C13: start, pause, resume, complete or cancel requested in a status where
\* it is not allowed fails, reports the current status and leaves the loop
\* table and the action and pause ledgers unchanged.
C13_RefusedRequestChangesNothing ==
    [][\A l \in DOMAIN loops, op \in DOMAIN AllowedStatus :
          (Requested(op) /\ call'.id = l /\ loops[l].status \notin AllowedStatus[op]) =>
             /\ ~call'.ok
             /\ call'.ret = <<loops[l].status>>
             /\ loops' = loops
             /\ actions' = actions
             /\ pauses' = pauses]_vars

\* pause has just been refused on a Pending loop
C13_Witness ==
    \E l \in DOMAIN loops :
        /\ call.op = "pause_loop" /\ call.id = l /\ ~call.ok
        /\ call.ret = <<"pending">>
        /\ loops[l].status = "pending"
        /\ loops[l].pause_count = 0
        /\ PauseRows(l) = {}

(***************************************************************************)
(* Properties of validate, freeze and check-action (SpecIntent)            *)
(***************************************************************************)
\* C14: validate_intent on a contract that is not Draft fails and leaves its
\* status, validated_by and validated_at unchanged.
C14_ValidateOnlyDraft ==
    [][\A i \in DOMAIN intents :
          (Requested("validate_intent") /\ call'.id = i
              /\ intents[i].status # "draft") =>
             /\ ~call'.ok
             /\ intents'[i].status = intents[i].status
             /\ intents'[i].validated_by = intents[i].validated_by
             /\ intents'[i].validated_at = intents[i].validated_at]_vars

\* the six text fields a contract needs, and those of them that are empty
SixRequiredFields ==
    <<"product_name", "product_description", "business_goal",
      "target_audience", "success_criteria", "constraints">>
EmptyFields(intent) == {k \in 1..6 : intent[SixRequiredFields[k]] = ""}

\* C15: validate_intent on a Draft contract with an empty required field fails,
\* names every empty field and leaves the contract as it was; with none empty
\* it makes the contract Validated and stamps validator and time.
C15_ValidateReportsEveryEmptyField ==
    [][\A i \in DOMAIN intents :
          (Requested("validate_intent") /\ call'.id = i
              /\ intents[i].status = "draft") =>
             IF EmptyFields(intents[i]) # {}
             THEN /\ ~call'.ok
                  /\ {call'.ret[k] : k \in DOMAIN call'.ret} =
                        {SixRequiredFields[k] : k \in EmptyFields(intents[i])}
                  /\ intents' = intents
             ELSE /\ call'.ok
                  /\ intents'[i].status = "validated"
                  /\ intents'[i].validated_by \in Validators
                  /\ intents'[i].validated_at = now]_vars

\* validation of a Draft contract has just failed with two empty fields
C15_Witness ==
    /\ call.op = "validate_intent" /\ ~call.ok
    /\ Len(call.ret) = 2
    /\ call.id \in DOMAIN intents
    /\ intents[call.id].status = "draft"
    /\ intents[call.id].validated_by = None

\* C16: freeze_intent succeeds only on a Validated contract; on any other it
\* fails and leaves status, frozen_at and intent_hash unchanged.
C16_FreezeOnlyValidated ==
    [][\A i \in DOMAIN intents :
          (Requested("freeze_intent") /\ call'.id = i) =>
             /\ call'.ok => intents[i].status = "validated"
             /\ intents[i].status # "validated" =>
                   /\ ~call'.ok
                   /\ intents'[i].status = intents[i].status
                   /\ intents'[i].frozen_at = intents[i].frozen_at
                   /\ intents'[i].intent_hash = intents[i].intent_hash]_vars

\* freeze has just been refused on a Frozen contract
C16_Witness ==
    /\ call.op = "freeze_intent" /\ ~call.ok
    /\ call.id \in DOMAIN intents
    /\ intents[call.id].status = "frozen"
    /\ intents[call.id].intent_hash # None

\* what the rules of the contract say about an action text: the first rule
\* that matches, in the order no-modification, no-removal, risk ceiling
ReferenceCheck(intent, text) ==
    LET c == Lower(intent.constraints)
        a == Lower(text)
    IN IF intent.status # "frozen" THEN <<TRUE, "none">>
       ELSE IF Contains(c, "n~ao alterar")
               /\ \E w \in {"alterar", "modificar", "mudar"} : Contains(a, w)
       THEN <<FALSE, "alteration">>
       ELSE IF Contains(c, "n~ao remover")
               /\ \E w \in {"remover", "deletar", "excluir"} : Contains(a, w)
       THEN <<FALSE, "removal">>
       ELSE IF intent.risk_level = "minimal"
               /\ \E w \in {"deploy", "produ,c~ao", "publicar", "deletar banco"} :
                      Contains(a, w)
       THEN <<FALSE, "risk">>
       ELSE <<TRUE, "none">>

\* the kind of a reason returned by check_action
ReasonKind(reason) ==
    IF reason = None THEN "none"
    ELSE IF reason = "Tentativa de alterar algo que n~ao pode ser alterado"
    THEN "alteration"
    ELSE IF reason = "Tentativa de remover algo que n~ao pode ser removido"
    THEN "removal"
    ELSE IF Contains(reason, "A,c~ao de alto risco n~ao permitida") THEN "risk"
    ELSE "other"

\* C17: check_action returns what the reference evaluation says, for every
\* contract and action text: allowed with no reason, and nothing recorded,
\* when the contract is not Frozen or no rule matches; otherwise denied with
\* the reason of the first matching rule.
C17_CheckActionMatchesReference ==
    [][\A i \in DOMAIN intents :
          (Requested("check_action") /\ call'.id = i) =>
             /\ call'.ok
             /\ <<call'.ret[1], ReasonKind(call'.ret[2])>> =
                   ReferenceCheck(intents[i], call'.arg[1])
             /\ call'.ret[1] => violations' = violations]_vars

\* C18: on a Frozen contract with constraints "do not remove the payments
\* endpoint", the action "remove payments endpoint" attempted by "agent-1" is
\* denied with the removal reason and exactly one Violation is added.
C18_RemovePaymentsEndpointDenied ==
    [][\A i \in DOMAIN intents :
          (/\ Requested("check_action") /\ call'.id = i
           /\ call'.arg = <<"remove payments endpoint", "agent-1">>
           /\ intents[i].status = "frozen"
           /\ intents[i].constraints = "do not remove the payments endpoint") =>
             /\ call'.ok
             /\ call'.ret[1] = FALSE
             /\ ReasonKind(call'.ret[2]) = "removal"
             /\ Len(violations') = Len(violations) + 1]_vars

\* the LoopAction rows of loop l
ActionRows(l) == {k \in DOMAIN actions : actions[k].loop_id = l}

\* C19: on a started loop whose deadline has not passed, check_limits after
\* exactly max_actions recorded actions finds actions_executed = max_actions
\* and returns should_pause with reason action_limit; after fewer it does not
\* report action_limit.
C19_ActionLimitAfterMaxActions ==
    [][\A l \in DOMAIN loops :
          (/\ Requested("check_limits") /\ call'.id = l
           /\ loops[l].started_at # NoTime
           /\ now < loops[l].deadline) =>
             /\ call'.ok
             /\ Cardinality(ActionRows(l)) = loops[l].max_actions =>
                   /\ loops[l].actions_executed = loops[l].max_actions
                   /\ call'.ret[1] = TRUE
                   /\ call'.ret[2] = "action_limit"
             /\ Cardinality(ActionRows(l)) < loops[l].max_actions =>
                   call'.ret[2] # "action_limit"]_vars

\* check_limits has just reported action_limit after two recorded actions, one
\* of them failed, with the cost below its ceiling
C19_Witness ==
    \E l \in DOMAIN loops :
        /\ call.op = "check_limits" /\ call.id = l /\ call.ok
        /\ call.ret[1] = TRUE /\ call.ret[2] = "action_limit"
        /\ loops[l].max_actions = 2
        /\ Cardinality(ActionRows(l)) = 2
        /\ \E k \in ActionRows(l) : ~actions[k].success
        /\ loops[l].cost_accumulated_usd < loops[l].max_cost_usd

(***************************************************************************)
(* Properties of overlapping requests (SpecConcurrent)                     *)
(***************************************************************************)
\* the sum of the costs of a set of LoopAction rows
RECURSIVE SumCost(_)
SumCost(rows) ==
    IF rows = {} THEN 0
    ELSE LET k == CHOOSE j \in rows : TRUE
         IN actions[k].cost_usd + SumCost(rows \ {k})

\* C20: with record_action requests on one loop overlapping, every increment
\* takes effect: actions_executed is the number of LoopAction rows of the
\* loop and cost_accumulated is the sum of their costs.
C20_NoLostRecordAction ==
    \A l \in DOMAIN loops :
        /\ loops[l].actions_executed = Cardinality(ActionRows(l))
        /\ loops[l].cost_accumulated_usd = SumCost(ActionRows(l))

\* C21: with requests on one loop overlapping, once a cancel or a complete
\* has committed the stored status never becomes Running or Paused again and
\* pause_count does not grow.
C21_TerminalSurvivesStaleRequests ==
    [][\A l \in DOMAIN loops :
          loops[l].status \in {"completed", "cancelled"} =>
             /\ loops'[l].status \notin {"running", "paused"}
             /\ loops'[l].pause_count <= loops[l].pause_count]_vars

(***************************************************************************)
(* The action endpoint with the values its signature accepts: cost_usd is  *)
(* a float and duration_seconds an int, neither is validated, so a report  *)
(* may carry a negative cost or a negative duration.                       *)
(***************************************************************************)
SignedActionReports == {<<TRUE, 2, 5>>, <<TRUE, 0 - 2, 5>>, <<FALSE, 2, 0 - 5>>}

NextSigned ==
    \/ \E id \in RequestLoopIds : StartLoop(id)
    \/ \E id \in RequestLoopIds : CheckLimits(id)
    \/ \E id \in RequestLoopIds, t \in ActionTypes, d \in RecordDescriptions,
          a \in Agents, r \in SignedActionReports :
          RecordAction(id, t, d, a, r[1], r[2], r[3])

SpecSigned == InitLoop /\ [][NextSigned]_vars

(***************************************************************************)
(* Pause and resume of loops that stand at or near a ceiling: the loops of *)
(* LimitLoops, whose iterations_executed was written by the driver.        *)
(***************************************************************************)
NextResume ==
    \/ \E id \in RequestLoopIds : CheckLimits(id)
    \/ \E id \in RequestLoopIds, r \in UserPauseReasons :
          PauseLoop(id, r, "pausa", "user", None)
    \/ \E id \in RequestLoopIds, u \in UserResponses : ResumeLoop(id, u)

SpecResume == InitLimits /\ [][NextResume]_vars

(***************************************************************************)
(* The workflow step engine: MainWorkflow (workflows/main_workflow.py),    *)
(* driven through /workflows/{id}/advance and /workflows/{id}/rollback,    *)
(* and CentralOrchestrator.execute_next_step (orchestrator/central.py),    *)
(* driven through /projects/{id}/execute-next.  Both work on the same      *)
(* Workflow and WorkflowStep tables.                                       *)
(***************************************************************************)
MaxSteps == 3

StepTypes == <<"interpret_requirement", "create_plan", "validate_plan", "generate_code", "create_tests", "run_tests", "build", "deploy", "monitor">>

\* the first MaxSteps entries of MainWorkflow.STEPS
STEPS == SubSeq(StepTypes, 1, MaxSteps)

\* the same list in the planner
STANDARD_WORKFLOW_STEPS == STEPS

ErrorMessages == {"falhou"}

RequestWorkflowIds == 1..(Len(workflows) + 1)

RequestProjectIds == 1..(Len(projects) + 1)

Project == [status |-> "draft"]

Workflow(project_id, status) ==
    [project_id |-> project_id, status |-> status, completed_at |-> NoTime]

WorkflowStep(workflow_id, step_type, order) ==
    [workflow_id |-> workflow_id, step_type |-> step_type, status |-> "pending",
     order |-> order, input_data |-> None, output_data |-> None,
     error_message |-> None, started_at |-> NoTime, completed_at |-> NoTime]

\* the step rows that initialize / create_project_plan insert for a workflow
NewSteps(workflow_id, step_types) ==
    [k \in 1..Len(step_types) |-> WorkflowStep(workflow_id, step_types[k], k - 1)]

\* Planner.validate_plan on the step types of a plan
validate_plan(step_types) ==
    LET has_tests == \E k \in DOMAIN step_types : step_types[k] = "run_tests"
        has_deploy == \E k \in DOMAIN step_types : step_types[k] = "deploy"
    IN step_types # <<>> /\ ~(has_deploy /\ ~has_tests)

\* select(WorkflowStep).where(workflow_id == ...).order_by(order): the ids of
\* the rows, in the order of their "order" column
get_workflow_steps(rows, workflow_id) ==
    LET ids == {i \in DOMAIN rows : rows[i].workflow_id = workflow_id}
    IN [k \in 1..Cardinality(ids) |->
           CHOOSE i \in ids :
               Cardinality({j \in ids : rows[j].order < rows[i].order}) = k - 1]

\* "for step in steps: if step.status in statuses: return step", 0 for None
RECURSIVE FirstStepIn(_, _, _, _)
FirstStepIn(rows, ids, k, statuses) ==
    IF k > Len(ids) THEN 0
    ELSE IF rows[ids[k]].status \in statuses THEN ids[k]
    ELSE FirstStepIn(rows, ids, k + 1, statuses)

\* get_current_step looking at pending steps only
get_current_step_pending_only(rows, workflow_id) ==
    FirstStepIn(rows, get_workflow_steps(rows, workflow_id), 1, {"pending"})

get_current_step(rows, workflow_id) ==
    FirstStepIn(rows, get_workflow_steps(rows, workflow_id), 1,
                {"pending", "in_progress"})

\* <<can_proceed, message>>
can_proceed_to_next_step(rows, workflow_id) ==
    LET ids == get_workflow_steps(rows, workflow_id)
        stop == FirstStepIn(rows, ids, 1, {"in_progress", "failed"})
    IN IF ids = <<>> THEN <<FALSE, "No workflow steps found">>
       ELSE IF stop # 0 /\ rows[stop].status = "failed"
       THEN <<FALSE, "Step failed">>
       ELSE IF stop # 0
       THEN <<FALSE, "Step still in progress">>
       ELSE IF \E k \in DOMAIN ids : rows[ids[k]].status = "pending"
       THEN <<TRUE, None>>
       ELSE <<FALSE, "All steps completed">>

\* select(Workflow).where(project_id == ..., status == ...).first(), 0 for None
FirstWorkflow(project_id, status) ==
    LET ids == {w \in DOMAIN workflows : /\ workflows[w].project_id = project_id
                                         /\ workflows[w].status = status}
    IN IF ids = {} THEN 0 ELSE CHOOSE w \in ids : \A v \in ids : w <= v

\* POST /workflows/{workflow_id}/advance
AdvanceStep(workflow_id, success, error_message) ==
    IF workflow_id \notin DOMAIN workflows
       \/ workflows[workflow_id].project_id \notin DOMAIN projects
    THEN /\ call' = Response("advance_step", workflow_id, FALSE, <<>>, "HTTP404")
         /\ UNCHANGED <<flows, engine, sessions, intents, loops, actions, pauses, violations, now>>
    ELSE LET current_step == get_current_step(steps, workflow_id)
         IN IF current_step = 0
            THEN /\ call' = ResponseTo("advance_step", workflow_id,
                                       <<success, error_message>>, TRUE,
                                       <<"completed", "All steps completed">>, "")
                 /\ UNCHANGED <<flows, engine, sessions, intents, loops, actions, pauses, violations, now>>
            ELSE IF success
            THEN LET done == [steps EXCEPT ![current_step].status = "completed",
                                           ![current_step].completed_at = now]
                     next_step == get_current_step(done, workflow_id)
                 IN /\ steps' = done
                    /\ IF next_step = 0
                       THEN /\ workflows' = [workflows EXCEPT
                                                ![workflow_id].status = "completed",
                                                ![workflow_id].completed_at = now]
                            /\ projects' = [projects EXCEPT
                                               ![workflows[workflow_id].project_id].status = "deployed"]
                            /\ call' = ResponseTo("advance_step", workflow_id,
                                           <<success, error_message>>, TRUE,
                                           <<"completed", "Workflow completed successfully">>, "")
                       ELSE /\ call' = ResponseTo("advance_step", workflow_id,
                                           <<success, error_message>>, TRUE,
                                           <<"advanced", done[next_step].step_type,
                                             done[next_step].order>>, "")
                            /\ UNCHANGED <<workflows, projects>>
                    /\ UNCHANGED <<flows, sessions, intents, loops, actions, pauses, violations, now>>
            ELSE /\ steps' = [steps EXCEPT ![current_step].status = "failed",
                                           ![current_step].error_message = error_message]
                 /\ IF steps[current_step].order > 0
                    THEN /\ call' = ResponseTo("advance_step", workflow_id,
                                        <<success, error_message>>, TRUE,
                                        <<"failed", "return_to_previous_step",
                                          error_message>>, "")
                         /\ UNCHANGED workflows
                    ELSE /\ workflows' = [workflows EXCEPT
                                             ![workflow_id].status = "failed"]
                         /\ call' = ResponseTo("advance_step", workflow_id,
                                        <<success, error_message>>, TRUE,
                                        <<"failed", "Workflow failed at first step",
                                          error_message>>, "")
                 /\ UNCHANGED <<flows, projects, sessions, intents, loops, actions, pauses, violations, now>>

\* rollback that also puts every step back to pending
RollbackResettingSteps(workflow_id) ==
    IF workflow_id \notin DOMAIN workflows
       \/ workflows[workflow_id].project_id \notin DOMAIN projects
    THEN /\ call' = Response("rollback", workflow_id, FALSE, <<>>, "HTTP404")
         /\ UNCHANGED <<flows, engine, sessions, intents, loops, actions, pauses, violations, now>>
    ELSE /\ workflows' = [workflows EXCEPT ![workflow_id].status = "rolled_back"]
         /\ projects' = [projects EXCEPT
                            ![workflows[workflow_id].project_id].status = "rolled_back"]
         /\ steps' = [i \in DOMAIN steps |->
                         IF steps[i].workflow_id = workflow_id
                         THEN [steps[i] EXCEPT !.status = "pending",
                                               !.started_at = NoTime,
                                               !.completed_at = NoTime]
                         ELSE steps[i]]
         /\ call' = Response("rollback", workflow_id, TRUE, <<"rolled_back">>, "")
         /\ UNCHANGED <<flows, sessions, intents, loops, actions, pauses, violations, now>>

\* POST /workflows/{workflow_id}/rollback
Rollback(workflow_id) ==
    IF workflow_id \notin DOMAIN workflows
       \/ workflows[workflow_id].project_id \notin DOMAIN projects
    THEN /\ call' = Response("rollback", workflow_id, FALSE, <<>>, "HTTP404")
         /\ UNCHANGED <<flows, engine, sessions, intents, loops, actions, pauses, violations, now>>
    ELSE /\ workflows' = [workflows EXCEPT ![workflow_id].status = "rolled_back"]
         /\ projects' = [projects EXCEPT
                            ![workflows[workflow_id].project_id].status = "rolled_back"]
         /\ call' = Response("rollback", workflow_id, TRUE, <<"rolled_back">>, "")
         /\ UNCHANGED <<flows, steps, sessions, intents, loops, actions, pauses, violations, now>>

\* execute_next_step up to the choice of the step (central.py 78-102), on the
\* tables as the request's Session reads them: the workflow it works on, that
\* workflow table after a pending workflow was put in progress, and what it
\* goes on to do
ExecutePlan(project_id) ==
    LET active == FirstWorkflow(project_id, "in_progress")
        pending == FirstWorkflow(project_id, "pending")
        workflow == IF active # 0 THEN active ELSE pending
        started == IF active = 0 /\ pending # 0
                   THEN [workflows EXCEPT ![pending].status = "in_progress"]
                   ELSE workflows
        can_proceed == can_proceed_to_next_step(steps, workflow)
        next_step == FirstStepIn(steps, get_workflow_steps(steps, workflow), 1,
                                 {"pending"})
    IN [workflow |-> workflow,
        workflows |-> started,
        next_step |-> next_step,
        message |-> IF workflow = 0 THEN "No workflow found" ELSE can_proceed[2],
        outcome |-> IF workflow = 0 THEN "error"
                    ELSE IF ~can_proceed[1] /\ can_proceed[2] # "All steps completed"
                    THEN "blocked"
                    ELSE IF next_step = 0 THEN "completed"
                    ELSE "step"]

\* the part of the request that answers without running a step
ExecuteAnswer(project_id, plan) ==
    /\ plan.outcome \in {"error", "blocked"}
    /\ workflows' = plan.workflows
    /\ call' = Response("execute_next_step", project_id, TRUE,
                        <<plan.outcome, plan.message>>, "")
    /\ UNCHANGED <<flows, steps, projects, sessions, intents, loops, actions, pauses, violations, now>>

\* POST /projects/{project_id}/execute-next up to "await self._execute_step":
\* one event loop runs this far without giving way to another coroutine
ExecuteNextStep(s, project_id) ==
    /\ sessions[s] = NoSession
    /\ IF project_id \notin DOMAIN projects
       THEN /\ call' = Response("execute_next_step", project_id, FALSE, <<>>, "HTTP404")
            /\ UNCHANGED <<flows, engine, sessions, intents, loops, actions, pauses, violations, now>>
       ELSE LET plan == ExecutePlan(project_id)
            IN \/ ExecuteAnswer(project_id, plan)
               \/ /\ plan.outcome = "completed"
                  /\ workflows' = [plan.workflows EXCEPT
                                      ![plan.workflow].status = "completed",
                                      ![plan.workflow].completed_at = now]
                  /\ call' = Response("execute_next_step", project_id, TRUE,
                                      <<"completed", "Workflow completed">>, "")
                  /\ UNCHANGED <<flows, steps, projects, sessions, intents, loops, actions, pauses, violations, now>>
               \/ /\ plan.outcome = "step"
                  /\ workflows' = plan.workflows
                  /\ steps' = [steps EXCEPT
                                  ![plan.next_step].status = "in_progress",
                                  ![plan.next_step].started_at = now]
                  /\ sessions' = [sessions EXCEPT
                                     ![s] = [op |-> "_execute_step", id |-> project_id,
                                             row |-> <<>>, arg |-> <<plan.next_step>>]]
                  /\ UNCHANGED <<flows, projects, call, intents, loops, actions, pauses, violations, now>>

\* the rest of the request, once the agent has answered (central.py 116-129)
ExecuteStepDone(s, success, error) ==
    /\ sessions[s].op = "_execute_step"
    /\ LET next_step == sessions[s].arg[1]
       IN /\ steps' = IF success
                      THEN [steps EXCEPT ![next_step].status = "completed",
                                         ![next_step].completed_at = now,
                                         ![next_step].output_data = "success"]
                      ELSE [steps EXCEPT ![next_step].status = "failed",
                                         ![next_step].error_message = error]
          /\ call' = Response("execute_next_step", sessions[s].id, TRUE,
                              <<IF success THEN "success" ELSE "error">>, "")
    /\ sessions' = [sessions EXCEPT ![s] = NoSession]
    /\ UNCHANGED <<flows, workflows, projects, intents, loops, actions, pauses, violations, now>>

\* one project whose workflow was created by POST /workflows/project/{id}/main
\* (initialize and start: workflow and project in progress) or by
\* POST /projects/{id}/start (create_project_plan: workflow pending)
InitWorkflow ==
    /\ intents = <<>>
    /\ loops = <<>>
    /\ actions = <<>>
    /\ pauses = <<>>
    /\ violations = <<>>
    /\ now = 0
    /\ call = NoResponse
    /\ sessions = NoSessions
    /\ projects = <<[Project EXCEPT !.status = "in_progress"]>>
    /\ products = <<>>
    /\ product_steps = <<>>
    /\ \/ workflows = <<Workflow(1, "in_progress")>> /\ steps = NewSteps(1, STEPS)
       \/ /\ validate_plan(STANDARD_WORKFLOW_STEPS)
          /\ workflows = <<Workflow(1, "pending")>>
          /\ steps = NewSteps(1, STANDARD_WORKFLOW_STEPS)

NextWorkflow ==
    \/ \E w \in RequestWorkflowIds, ok \in BOOLEAN, e \in ErrorMessages :
          AdvanceStep(w, ok, e)
    \/ \E w \in RequestWorkflowIds : Rollback(w)
    \/ \E s \in Sessions, p \in RequestProjectIds : ExecuteNextStep(s, p)
    \/ \E s \in Sessions, ok \in BOOLEAN, e \in ErrorMessages :
          ExecuteStepDone(s, ok, e)

SpecWorkflow == InitWorkflow /\ [][NextWorkflow]_vars

(***************************************************************************)
(* Requests served by different worker processes share only the database:  *)
(* each reads the tables into its own Session (78-102) and writes later    *)
(* (104-114), with no lock and no version check in between.                *)
(***************************************************************************)
ExecuteLoad(s, project_id) ==
    /\ sessions[s] = NoSession
    /\ IF project_id \notin DOMAIN projects
       THEN /\ call' = Response("execute_next_step", project_id, FALSE, <<>>, "HTTP404")
            /\ UNCHANGED <<flows, engine, sessions, intents, loops, actions, pauses, violations, now>>
       ELSE LET plan == ExecutePlan(project_id)
            IN \/ ExecuteAnswer(project_id, plan)
               \/ /\ plan.outcome \in {"completed", "step"}
                  /\ workflows' = plan.workflows
                  /\ sessions' = [sessions EXCEPT
                                     ![s] = [op |-> "execute_next_step", id |-> project_id,
                                             row |-> <<>>,
                                             arg |-> <<plan.workflow, plan.next_step>>]]
                  /\ UNCHANGED <<flows, steps, projects, call, intents, loops, actions, pauses, violations, now>>

ExecuteMark(s) ==
    /\ sessions[s].op = "execute_next_step"
    /\ LET workflow == sessions[s].arg[1]
           next_step == sessions[s].arg[2]
       IN IF next_step = 0
          THEN /\ workflows' = [workflows EXCEPT
                                   ![workflow].status = "completed",
                                   ![workflow].completed_at = now]
               /\ call' = Response("execute_next_step", sessions[s].id, TRUE,
                                   <<"completed", "Workflow completed">>, "")
               /\ sessions' = [sessions EXCEPT ![s] = NoSession]
               /\ UNCHANGED <<flows, steps, projects, intents, loops, actions, pauses, violations, now>>
          ELSE /\ steps' = [steps EXCEPT
                               ![next_step].status = "in_progress",
                               ![next_step].started_at = now]
               /\ sessions' = [sessions EXCEPT
                                  ![s] = [op |-> "_execute_step", id |-> sessions[s].id,
                                          row |-> <<>>, arg |-> <<next_step>>]]
               /\ UNCHANGED <<flows, workflows, projects, call, intents, loops, actions, pauses, violations, now>>

NextExecute ==
    \/ \E s \in Sessions, p \in RequestProjectIds : ExecuteLoad(s, p)
    \/ \E s \in Sessions : ExecuteMark(s)
    \/ \E s \in Sessions, ok \in BOOLEAN, e \in ErrorMessages :
          ExecuteStepDone(s, ok, e)

SpecExecute == InitWorkflow /\ [][NextExecute]_vars

(***************************************************************************)
(* Further properties of the loop controller (SpecLoop)                    *)
(***************************************************************************)
\* C22: cancel_loop succeeds on a Pending, Running or Paused loop, which it
\* leaves Cancelled with the time and the reason of the cancellation, and
\* fails on a Completed or Cancelled loop, which it leaves as it was.
C22_CancelFromEveryOpenStatus ==
    [][\A l \in DOMAIN loops :
          (Requested("cancel_loop") /\ call'.id = l) =>
             IF loops[l].status \in {"pending", "running", "paused"}
             THEN /\ call'.ok
                  /\ loops'[l].status = "cancelled"
                  /\ loops'[l].cancelled_at = now
                  /\ loops'[l].result = "Cancelado: " \o call'.arg[1]
             ELSE /\ ~call'.ok
                  /\ loops[l].status \in {"completed", "cancelled"}
                  /\ loops' = loops]_vars

\* a Paused loop has just been cancelled
C22_Witness ==
    \E l \in DOMAIN loops :
        /\ call.op = "cancel_loop" /\ call.id = l /\ call.ok
        /\ loops[l].status = "cancelled"
        /\ loops[l].cancelled_at # NoTime
        /\ OpenPauseRows(l) # {}

\* C23: complete_loop succeeds exactly on a Running or Paused loop and stores
\* the result it was given; a Completed loop has progress_percentage 100,
\* completed_at set and a result stored, in every state.
C23_CompletedLoopIsComplete ==
    /\ [](\A l \in DOMAIN loops :
             loops[l].status = "completed" =>
                /\ loops[l].progress_percentage = 100
                /\ loops[l].completed_at # NoTime
                /\ loops[l].result \in Results)
    /\ [][\A l \in DOMAIN loops :
             (Requested("complete_loop") /\ call'.id = l) =>
                /\ call'.ok <=> loops[l].status \in {"running", "paused"}
                /\ call'.ok => /\ loops'[l].status = "completed"
                               /\ loops'[l].result = call'.arg[1]
                               /\ loops'[l].completed_at = now]_vars

\* a Paused loop has just been completed
C23_Witness ==
    \E l \in DOMAIN loops :
        /\ call.op = "complete_loop" /\ call.id = l /\ call.ok
        /\ loops[l].status = "completed"
        /\ loops[l].progress_percentage = 100
        /\ loops[l].pause_count > 0

\* C25: start_loop succeeds only on a Pending loop, which it makes Running
\* with deadline = started_at + max_time_minutes; nothing else makes a
\* Pending loop Running, and once set started_at and deadline never change.
C25_DeadlineFixedAtStart ==
    [][\A l \in DOMAIN loops :
          /\ (Requested("start_loop") /\ call'.id = l /\ call'.ok) =>
                /\ loops[l].status = "pending"
                /\ loops'[l].status = "running"
                /\ loops'[l].started_at = now
                /\ loops'[l].deadline = loops'[l].started_at + loops[l].max_time_minutes
          /\ (loops[l].status = "pending" /\ loops'[l].status = "running") =>
                Requested("start_loop") /\ call'.id = l
          /\ loops[l].started_at # NoTime =>
                /\ loops'[l].started_at = loops[l].started_at
                /\ loops'[l].deadline = loops[l].deadline]_vars

\* a loop that was paused and resumed has just been told that its time is up,
\* at the deadline computed when it started
C25_Witness ==
    \E l \in DOMAIN loops :
        /\ call.op = "check_limits" /\ call.id = l /\ call.ok
        /\ call.ret[2] = "time_limit"
        /\ loops[l].status = "running"
        /\ loops[l].pause_count > 0
        /\ loops[l].deadline = loops[l].started_at + loops[l].max_time_minutes
        /\ now >= loops[l].deadline

\* C24: elapsed_seconds, actions_executed, cost_accumulated_usd and
\* iterations_executed of a loop never decrease in any step, whatever cost
\* and duration record_action is given.
C24_CountersNeverDecrease ==
    [][\A l \in DOMAIN loops :
          /\ loops'[l].elapsed_seconds >= loops[l].elapsed_seconds
          /\ loops'[l].actions_executed >= loops[l].actions_executed
          /\ loops'[l].cost_accumulated_usd >= loops[l].cost_accumulated_usd
          /\ loops'[l].iterations_executed >= loops[l].iterations_executed]_vars

(***************************************************************************)
(* Properties of the workflow step engine                                  *)
(***************************************************************************)
\* the steps of a workflow that come before step i
EarlierSteps(i) ==
    {j \in DOMAIN steps : /\ steps[j].workflow_id = steps[i].workflow_id
                          /\ steps[j].order < steps[i].order}

\* the steps of a workflow that are in progress
RunningSteps(w) ==
    {i \in DOMAIN steps : steps[i].workflow_id = w /\ steps[i].status = "in_progress"}

\* the steps of a workflow that are pending or in progress
OpenSteps(w) ==
    {i \in DOMAIN steps : /\ steps[i].workflow_id = w
                          /\ steps[i].status \in {"pending", "in_progress"}}

\* C26: a step that is not Pending has only Completed steps before it, and
\* once advance_step has marked a step Failed no advance_step touches a
\* later step.
C26_StepsLeavePendingInOrder ==
    /\ [](\A i \in DOMAIN steps :
             steps[i].status # "pending" =>
                \A j \in EarlierSteps(i) : steps[j].status = "completed")
    /\ [][\A i \in DOMAIN steps :
             (/\ Requested("advance_step")
              /\ \E j \in EarlierSteps(i) : steps[j].status = "failed") =>
                steps'[i] = steps[i]]_vars

\* C27: at most one step of a workflow is in progress, also when requests
\* read the steps before another request has marked its step.
C27_AtMostOneStepRunning ==
    \A w \in DOMAIN workflows : Cardinality(RunningSteps(w)) <= 1

\* C28: advance_step on a workflow without a Pending or Running step leaves
\* the workflow Completed; advance_step(success) completes the current step
\* at the current time and, if no step is left, completes the workflow.
C28_AdvanceCompletesWorkflow ==
    [][\A w \in DOMAIN workflows :
          (Requested("advance_step") /\ call'.id = w) =>
             LET current_step == get_current_step(steps, w)
             IN /\ current_step = 0 => workflows'[w].status = "completed"
                /\ (current_step # 0 /\ call'.arg[1]) =>
                      /\ steps'[current_step].status = "completed"
                      /\ steps'[current_step].completed_at = now
                      /\ OpenSteps(w) = {current_step} =>
                            workflows'[w].status = "completed"]_vars

\* C29: get_current_step returns the lowest-order step that is Pending or
\* Running, returns a Running step whenever one exists, and returns none
\* exactly when no step is Pending or Running.
C29_CurrentStepIsFirstOpenStep ==
    \A w \in DOMAIN workflows :
        LET current_step == get_current_step(steps, w)
        IN /\ current_step = 0 <=> OpenSteps(w) = {}
           /\ current_step # 0 =>
                 /\ current_step \in OpenSteps(w)
                 /\ \A i \in OpenSteps(w) : steps[current_step].order <= steps[i].order
           /\ RunningSteps(w) # {} => current_step \in RunningSteps(w)

\* a step is in progress between a completed step and a pending one
C29_Witness ==
    \E w \in DOMAIN workflows :
        /\ RunningSteps(w) # {}
        /\ get_current_step(steps, w) \in RunningSteps(w)
        /\ \E j \in EarlierSteps(get_current_step(steps, w)) :
               steps[j].status = "completed"
        /\ \E i \in OpenSteps(w) : steps[i].status = "pending"

\* C30: rollback sets the workflow status to rolled_back and leaves every
\* step row as it was.
C30_RollbackKeepsSteps ==
    [][\A w \in DOMAIN workflows :
          (Requested("rollback") /\ call'.id = w) =>
             /\ call'.ok
             /\ workflows'[w].status = "rolled_back"
             /\ steps' = steps]_vars

\* a workflow with a completed and a failed step has just been rolled back
C30_Witness ==
    \E w \in DOMAIN workflows :
        /\ call.op = "rollback" /\ call.id = w /\ call.ok
        /\ workflows[w].status = "rolled_back"
        /\ \E i, j \in DOMAIN steps :
              /\ steps[i].workflow_id = w /\ steps[i].status = "completed"
              /\ steps[i].completed_at # NoTime
              /\ steps[j].workflow_id = w /\ steps[j].status = "failed"
              /\ steps[j].error_message # None

(***************************************************************************)
(* Counters and status of a loop across its operations                     *)
(***************************************************************************)
\* the fields check_limits reads besides the ceilings
LimitFields(loop) ==
    <<loop.actions_executed, loop.cost_accumulated_usd, loop.elapsed_seconds,
      loop.iterations_executed, loop.deadline>>

C34_ActionsOnlyAfterStart ==
    /\ [](\A l \in DOMAIN loops :
             loops[l].actions_executed > 0 => loops[l].started_at # NoTime)
    /\ [][\A l \in DOMAIN loops :
             (Requested("record_action") /\ call'.id = l /\ call'.ok) =>
                loops[l].status \in {"running", "paused"}]_vars

C37_FiveStatusesOnly ==
    /\ [](\A l \in DOMAIN loops :
             loops[l].status \in {"pending", "running", "paused", "completed",
                                  "cancelled"})
    /\ [][Requested("check_limits") =>
             /\ loops' = loops
             /\ actions' = actions
             /\ pauses' = pauses]_vars

\* check_limits has just reported a reached limit on a loop that is still
\* running
C37_Witness ==
    \E l \in DOMAIN loops :
        /\ call.op = "check_limits" /\ call.id = l /\ call.ok
        /\ call.ret[1] = TRUE
        /\ call.ret[2] \in {"action_limit", "cost_limit"}
        /\ loops[l].status = "running"

\* C35: a workflow whose status is completed has only completed steps.
C35_CompletedWorkflowHasCompletedSteps ==
    \A w \in DOMAIN workflows :
        workflows[w].status = "completed" =>
           \A i \in DOMAIN steps :
              steps[i].workflow_id = w => steps[i].status = "completed"

(***************************************************************************)
(* The status enumerations of the project lifecycle                        *)
(* ACTIVE -> TERMINATING -> TERMINATED (services/project_termination.py)   *)
(***************************************************************************)

\* rows of the project table
MaxProjects == 2

\* The status enumerations, member name |-> value.  Reading a member that
\* an enumeration does not have raises AttributeError.
ProjectStatus ==
    [DRAFT |-> "draft", PLANNING |-> "planning", IN_PROGRESS |-> "in_progress",
     TESTING |-> "testing", DEPLOYING |-> "deploying", DEPLOYED |-> "deployed",
     FAILED |-> "failed", ROLLED_BACK |-> "rolled_back", ASSUMING |-> "assuming",
     DIAGNOSING |-> "diagnosing", EVOLVING |-> "evolving", ACTIVE |-> "active",
     TERMINATING |-> "terminating", TERMINATED |-> "terminated"]

WorkflowStatus ==
    [PENDING |-> "pending", IN_PROGRESS |-> "in_progress", COMPLETED |-> "completed",
     FAILED |-> "failed", ROLLED_BACK |-> "rolled_back"]

ProductStatus ==
    [DRAFT |-> "draft", RUNNING |-> "running", COMPLETED |-> "completed",
     FAILED |-> "failed"]

TaskStatus ==
    [PENDING |-> "pending", IN_PROGRESS |-> "in_progress", COMPLETED |-> "completed",
     FAILED |-> "failed", BLOCKED |-> "blocked"]

(***************************************************************************)
(* Create flow (services/create_flow.py): a product and its five steps     *)
(***************************************************************************)

StepStatus == [PENDING |-> "pending", RUNNING |-> "running", DONE |-> "done", FAILED |-> "failed"]

STEP_ORDER == <<"generate_code", "create_tests", "generate_docs", "validate_structure", "finalize_product">>

RequestProductIds == 1..(Len(products) + 1)

Product(project_id) ==
    [project_id |-> project_id, status |-> ProductStatus.DRAFT,
     version_tag |-> None]

ProductStep(product_id, step_name) ==
    [product_id |-> product_id, step_name |-> step_name,
     status |-> StepStatus.PENDING, input_data |-> None, output_data |-> None,
     error_message |-> None, started_at |-> NoTime, completed_at |-> NoTime]

\* the rows initialize_product adds for a product
ProductSteps(product_id) ==
    [k \in DOMAIN STEP_ORDER |-> ProductStep(product_id, STEP_ORDER[k])]

\* select(ProductStep).where(product_id, step_name).first(): the index of the
\* row, 0 for no row
StepRow(rows, product_id, step_name) ==
    LET found == {i \in DOMAIN rows :
                     /\ rows[i].product_id = product_id
                     /\ rows[i].step_name = step_name}
    IN  IF found = {} THEN 0
        ELSE CHOOSE i \in found : \A j \in found : i <= j

\* the dictionary a step returns, named by its first key
StepOutput(step_name) ==
    CASE step_name = "generate_code" -> "code_generated"
      [] step_name = "create_tests" -> "tests_created"
      [] step_name = "generate_docs" -> "docs_generated"
      [] step_name = "validate_structure" -> "validation_passed"
      [] step_name = "finalize_product" -> "version_tag"

\* what the logic of a step raises, None if it returns: `fault` is an
\* exception of the work the step does, None for no exception
StepLogicError(db, product_id, step_name, fault) ==
    IF product_id \notin DOMAIN db.products THEN "Product not found"
    ELSE IF fault # None THEN fault
    ELSE IF step_name = "create_tests"
    THEN LET code_step == StepRow(db.product_steps, product_id, "generate_code")
         IN  IF code_step = 0 \/ db.product_steps[code_step].output_data = None
             THEN "Code generation step output not found"
             ELSE None
    ELSE None

\* the product after the logic of a step has run (summary and updated_at
\* are written with version_tag and are left out)
StepLogicProduct(product, step_name) ==
    IF step_name = "finalize_product"
    THEN [product EXCEPT !.version_tag = "v1.0.0"]
    ELSE product

\* _execute_step without the test for a step that is already done
execute_step_again(db, product_id, step_name, fault, t) ==
    LET i == StepRow(db.product_steps, product_id, step_name) IN
    IF i = 0 THEN [db EXCEPT !.error = "Step not found"]
    ELSE LET running == [db.product_steps[i] EXCEPT !.status = StepStatus.RUNNING,
                                                     !.started_at = t]
             marked == [db EXCEPT !.product_steps[i] = running]
             error == StepLogicError(marked, product_id, step_name, fault)
         IN  IF error = None
             THEN [products |-> [db.products EXCEPT ![product_id] =
                                    StepLogicProduct(@, step_name)],
                   product_steps |-> [db.product_steps EXCEPT ![i] =
                                         [running EXCEPT
                                             !.status = StepStatus.DONE,
                                             !.completed_at = t,
                                             !.output_data = StepOutput(step_name),
                                             !.error_message = None]],
                   error |-> None]
             ELSE [products |-> db.products,
                   product_steps |-> [db.product_steps EXCEPT ![i] =
                                         [running EXCEPT
                                             !.status = StepStatus.FAILED,
                                             !.completed_at = t,
                                             !.error_message = error]],
                   error |-> error]

\* _execute_step on the tables db = [products, product_steps, error] at time
\* t: the tables afterwards and the exception raised (None for a return)
execute_step(db, product_id, step_name, fault, t) ==
    LET i == StepRow(db.product_steps, product_id, step_name) IN
    IF i = 0 THEN [db EXCEPT !.error = "Step not found"]
    ELSE IF db.product_steps[i].status = StepStatus.DONE THEN db
    ELSE LET running == [db.product_steps[i] EXCEPT !.status = StepStatus.RUNNING,
                                                     !.started_at = t]
             marked == [db EXCEPT !.product_steps[i] = running]
             error == StepLogicError(marked, product_id, step_name, fault)
         IN  IF error = None
             THEN [products |-> [db.products EXCEPT ![product_id] =
                                    StepLogicProduct(@, step_name)],
                   product_steps |-> [db.product_steps EXCEPT ![i] =
                                         [running EXCEPT
                                             !.status = StepStatus.DONE,
                                             !.completed_at = t,
                                             !.output_data = StepOutput(step_name),
                                             !.error_message = None]],
                   error |-> None]
             ELSE [products |-> db.products,
                   product_steps |-> [db.product_steps EXCEPT ![i] =
                                         [running EXCEPT
                                             !.status = StepStatus.FAILED,
                                             !.completed_at = t,
                                             !.error_message = error]],
                   error |-> error]

RECURSIVE RunStepsOn(_, _, _, _, _, _)
\* the loop of execute_flow without its stop at the first exception
RunStepsOn(db, product_id, k, failing, fault, t) ==
    IF k > Len(STEP_ORDER) THEN db
    ELSE LET r == execute_step(db, product_id, STEP_ORDER[k],
                               IF failing = k THEN fault ELSE None, t)
         IN  RunStepsOn([r EXCEPT !.error = IF db.error # None THEN db.error ELSE @],
                        product_id, k + 1, failing, fault, t)

RECURSIVE RunSteps(_, _, _, _, _, _)
\* the loop of execute_flow from step k on: it stops at the first exception.
\* `failing` is the place in STEP_ORDER of the step whose logic raises
\* `fault` (0 for none).
RunSteps(db, product_id, k, failing, fault, t) ==
    IF k > Len(STEP_ORDER) THEN db
    ELSE LET r == execute_step(db, product_id, STEP_ORDER[k],
                               IF failing = k THEN fault ELSE None, t)
         IN  IF r.error # None THEN r
             ELSE RunSteps(r, product_id, k + 1, failing, fault, t)

\* POST /projects/{id}/create runs execute_flow(product_id) as a background
\* task
ExecuteFlow(product_id, failing, fault) ==
    /\ IF product_id \notin DOMAIN products
       THEN /\ call' = Response("execute_flow", product_id, FALSE, <<>>,
                                "Product not found")
            /\ UNCHANGED flows
       ELSE LET started == [products EXCEPT
                               ![product_id].status = ProductStatus.RUNNING]
                r == RunSteps([products |-> started,
                               product_steps |-> product_steps,
                               error |-> None],
                              product_id, 1, failing, fault, now)
            IN  /\ product_steps' = r.product_steps
                /\ products' = [r.products EXCEPT
                                   ![product_id].status =
                                       IF r.error # None THEN ProductStatus.FAILED
                                       ELSE ProductStatus.COMPLETED]
                /\ call' = Response("execute_flow", product_id, r.error = None,
                                    <<>>, IF r.error = None THEN "" ELSE r.error)
    /\ UNCHANGED <<engine, sessions, intents, loops, actions, pauses, violations, now>>

\* _execute_step(product_id, step_name) called on its own
ExecuteStep(product_id, step_name, fault) ==
    LET r == execute_step([products |-> products, product_steps |-> product_steps,
                           error |-> None],
                          product_id, step_name, fault, now)
    IN  /\ product_steps' = r.product_steps
        /\ products' = r.products
        /\ call' = ResponseTo("execute_step", product_id, <<step_name>>,
                              r.error = None, <<>>,
                              IF r.error = None THEN "" ELSE r.error)
        /\ UNCHANGED <<engine, sessions, intents, loops, actions, pauses, violations, now>>

\* the exceptions the work of a step raises
Faults == {None} \cup ErrorMessages

\* the state after initialize_product for one product of project 1
InitCreateFlow ==
    /\ intents = <<>>
    /\ loops = <<>>
    /\ actions = <<>>
    /\ pauses = <<>>
    /\ violations = <<>>
    /\ now = 0
    /\ call = NoResponse
    /\ sessions = NoSessions
    /\ workflows = <<>>
    /\ steps = <<>>
    /\ projects = <<Project>>
    /\ products = <<Product(1)>>
    /\ product_steps = ProductSteps(1)

\* steps and flows whose work may raise, all at one reading of the clock
NextCreateFlow ==
    \/ \E p \in RequestProductIds, k \in DOMAIN STEP_ORDER, fault \in Faults :
          ExecuteStep(p, STEP_ORDER[k], fault)
    \/ \E p \in RequestProductIds, failing \in 0..Len(STEP_ORDER),
          fault \in ErrorMessages :
          ExecuteFlow(p, failing, fault)

SpecCreateFlow == InitCreateFlow /\ [][NextCreateFlow]_vars

\* steps and flows repeated as time passes: the work of a step called on its
\* own raises only what the code raises
NextRepeat ==
    \/ \E p \in RequestProductIds, k \in DOMAIN STEP_ORDER :
          ExecuteStep(p, STEP_ORDER[k], None)
    \/ \E p \in RequestProductIds, failing \in 0..Len(STEP_ORDER),
          fault \in ErrorMessages :
          ExecuteFlow(p, failing, fault)
    \/ Tick

SpecRepeat == InitCreateFlow /\ [][NextRepeat]_vars

(***************************************************************************)
(* Project lifecycle requests                                              *)
(***************************************************************************)

\* the statuses a client sends in ProjectCreate and ProjectUpdate
RequestStatuses ==
    {ProjectStatus.DRAFT, ProjectStatus.ACTIVE, ProjectStatus.FAILED,
     ProjectStatus.TERMINATED}

\* POST /projects/: the row takes the status of the body (default draft)
CreateProject(status) ==
    /\ Len(projects) < MaxProjects
    /\ projects' = Append(projects, [Project EXCEPT !.status = status])
    /\ call' = Response("create_project", Len(projects) + 1, TRUE, <<status>>, "")
    /\ UNCHANGED <<flows, workflows, steps, sessions, intents, loops, actions, pauses, violations, now>>

\* PATCH /projects/{id} with a status in the body
UpdateProject(project_id, status) ==
    /\ IF project_id \notin DOMAIN projects
       THEN /\ call' = Response("update_project", project_id, FALSE, <<>>,
                                "Project not found")
            /\ UNCHANGED projects
       ELSE /\ projects' = [projects EXCEPT ![project_id].status = status]
            /\ call' = Response("update_project", project_id, TRUE, <<status>>, "")
    /\ UNCHANGED <<flows, workflows, steps, sessions, intents, loops, actions, pauses, violations, now>>

\* the members terminate_project reads after it has committed TERMINATING,
\* in the order it reads them
TerminationReads ==
    <<<<WorkflowStatus, "RUNNING">>, <<WorkflowStatus, "PENDING">>,
      <<WorkflowStatus, "CANCELLED">>, <<ProductStatus, "RUNNING">>,
      <<ProductStatus, "PENDING">>, <<ProductStatus, "CANCELLED">>,
      <<TaskStatus, "RUNNING">>, <<TaskStatus, "PENDING">>,
      <<TaskStatus, "CANCELLED">>>>

TerminationRaises ==
    \E i \in DOMAIN TerminationReads :
        TerminationReads[i][2] \notin DOMAIN TerminationReads[i][1]

\* POST /projects/{id}/terminate.  The task table is not part of the model.
TerminateProject(project_id) ==
    IF project_id \notin DOMAIN projects
    THEN /\ call' = Response("terminate_project", project_id, FALSE, <<>>,
                             "PROJECT_NOT_FOUND")
         /\ UNCHANGED <<flows, engine, sessions, intents, loops, actions, pauses, violations, now>>
    ELSE IF projects[project_id].status = ProjectStatus.TERMINATED
    THEN /\ call' = Response("terminate_project", project_id, TRUE,
                             <<"already_terminated">>, "")
         /\ UNCHANGED <<flows, engine, sessions, intents, loops, actions, pauses, violations, now>>
    ELSE IF projects[project_id].status # ProjectStatus.ACTIVE
    THEN /\ call' = Response("terminate_project", project_id, FALSE,
                             <<projects[project_id].status>>, "PROJECT_NOT_ACTIVE")
         /\ UNCHANGED <<flows, engine, sessions, intents, loops, actions, pauses, violations, now>>
    ELSE IF TerminationRaises
    THEN \* TERMINATING is committed (95-97); the query of step 5 raises
         /\ projects' = [projects EXCEPT
                            ![project_id].status = ProjectStatus.TERMINATING]
         /\ call' = Response("terminate_project", project_id, FALSE, <<>>,
                             "AttributeError")
         /\ UNCHANGED <<flows, workflows, steps, sessions, intents, loops, actions, pauses, violations, now>>
    ELSE LET running_workflows ==
                 {w \in DOMAIN workflows :
                     /\ workflows[w].project_id = project_id
                     /\ workflows[w].status \in {WorkflowStatus.RUNNING,
                                                 WorkflowStatus.PENDING}}
             running_products ==
                 {p \in DOMAIN products :
                     /\ products[p].project_id = project_id
                     /\ products[p].status \in {ProductStatus.RUNNING,
                                                ProductStatus.PENDING}}
         IN  /\ workflows' = [w \in DOMAIN workflows |->
                                 IF w \in running_workflows
                                 THEN [workflows[w] EXCEPT
                                          !.status = WorkflowStatus.CANCELLED]
                                 ELSE workflows[w]]
             /\ products' = [p \in DOMAIN products |->
                                IF p \in running_products
                                THEN [products[p] EXCEPT
                                         !.status = ProductStatus.CANCELLED]
                                ELSE products[p]]
             /\ projects' = [projects EXCEPT
                                ![project_id].status = ProjectStatus.TERMINATED]
             /\ call' = Response("terminate_project", project_id, TRUE,
                                 <<Cardinality(running_workflows),
                                   Cardinality(running_products)>>, "")
             /\ UNCHANGED <<product_steps, steps, sessions, intents, loops, actions, pauses, violations, now>>

\* no project yet
InitProjects ==
    /\ intents = <<>>
    /\ loops = <<>>
    /\ actions = <<>>
    /\ pauses = <<>>
    /\ violations = <<>>
    /\ now = 0
    /\ call = NoResponse
    /\ sessions = NoSessions
    /\ workflows = <<>>
    /\ steps = <<>>
    /\ projects = <<>>
    /\ products = <<>>
    /\ product_steps = <<>>

NextTerminate ==
    \/ \E status \in RequestStatuses : CreateProject(status)
    \/ \E p \in RequestProjectIds, status \in RequestStatuses :
          UpdateProject(p, status)
    \/ \E p \in RequestProjectIds : TerminateProject(p)

SpecTerminate == InitProjects /\ [][NextTerminate]_vars

(***************************************************************************)
(* Product creation (services/product_creation.py): create_product runs    *)
(* as a background task and waits for an agent at every step               *)
(***************************************************************************)

\* the steps _create_workflow inserts, in order
CreationSteps == <<"interpret_requirement", "create_plan", "validate_plan", "generate_code", "create_tests", "run_tests", "build", "deploy", "monitor">>

\* _get_workflow_step: the index of the row, 0 for no row
get_workflow_step(rows, workflow_id, step_type) ==
    LET found == {i \in DOMAIN rows :
                     /\ rows[i].workflow_id = workflow_id
                     /\ rows[i].step_type = step_type}
    IN  IF found = {} THEN 0
        ELSE CHOOSE i \in found : \A j \in found : i <= j

\* the status create_product gives the project before it starts step k
ProjectStatusBefore(k, status) ==
    CASE k = 1 -> ProjectStatus.PLANNING
      [] k = 4 -> ProjectStatus.IN_PROGRESS
      [] k = 6 -> ProjectStatus.TESTING
      [] k = 8 -> ProjectStatus.DEPLOYING
      [] OTHER -> status

\* _update_step_status(step, IN_PROGRESS)
StartStep(rows, i, t) ==
    [rows EXCEPT ![i].status = WorkflowStatus.IN_PROGRESS, ![i].started_at = t]

\* POST /product/create and the start of its background task: the project,
\* its workflow with nine pending steps, and the first step handed to its
\* agent.  The task takes the first free place of `sessions`.
CreateProduct(s) ==
    /\ sessions[s] = NoSession
    /\ \A r \in Sessions : r < s => sessions[r] # NoSession
    /\ Len(projects) < MaxProjects
    /\ LET project_id == Len(projects) + 1
           workflow_id == Len(workflows) + 1
           created == steps \o NewSteps(workflow_id, CreationSteps)
       IN  /\ projects' = Append(projects,
                             [Project EXCEPT
                                 !.status = ProjectStatusBefore(1, Project.status)])
           /\ workflows' = Append(workflows,
                              Workflow(project_id, WorkflowStatus.IN_PROGRESS))
           /\ steps' = StartStep(created,
                                 get_workflow_step(created, workflow_id,
                                                   CreationSteps[1]), now)
           /\ sessions' = [sessions EXCEPT ![s] =
                              [op |-> "create_product", id |-> workflow_id,
                               row |-> <<>>, arg |-> <<1>>]]
           /\ call' = Response("create_product", project_id, TRUE, <<"started">>, "")
    /\ UNCHANGED <<flows, intents, loops, actions, pauses, violations, now>>

\* a step that goes on to the next step after a failure
CreateProductStepGoingOn(s, success, error) ==
    /\ sessions[s].op = "create_product"
    /\ LET workflow_id == sessions[s].id
           project_id == workflows[workflow_id].project_id
           k == sessions[s].arg[1]
           i == get_workflow_step(steps, workflow_id, CreationSteps[k])
           done == IF success
                   THEN [steps EXCEPT ![i].status = WorkflowStatus.COMPLETED,
                                      ![i].completed_at = now,
                                      ![i].output_data = "success"]
                   ELSE [steps EXCEPT ![i].status = WorkflowStatus.FAILED,
                                      ![i].completed_at = now,
                                      ![i].error_message = error]
       IN  IF k < Len(CreationSteps)
           THEN /\ projects' = [projects EXCEPT ![project_id].status =
                                   ProjectStatusBefore(k + 1, @)]
                /\ steps' = StartStep(done,
                                      get_workflow_step(done, workflow_id,
                                                        CreationSteps[k + 1]), now)
                /\ sessions' = [sessions EXCEPT ![s].arg = <<k + 1>>]
                /\ UNCHANGED <<workflows, call>>
           ELSE /\ steps' = done
                /\ workflows' = [workflows EXCEPT
                                    ![workflow_id].status = WorkflowStatus.COMPLETED,
                                    ![workflow_id].completed_at = now]
                /\ projects' = [projects EXCEPT
                                   ![project_id].status = ProjectStatus.DEPLOYED]
                /\ sessions' = [sessions EXCEPT ![s] = NoSession]
                /\ call' = Response("create_product_result", project_id, TRUE,
                                    <<"success">>, "")
    /\ UNCHANGED <<flows, intents, loops, actions, pauses, violations, now>>

\* The agent of the running step has answered.  On success the step is
\* completed and the next one is handed to its agent, or, after the last
\* step, the workflow is completed and the project deployed.  On failure the
\* step is failed and _handle_workflow_failure marks workflow and project
\* failed and hands the rollback to the infra agent.
CreateProductStep(s, success, error) ==
    /\ sessions[s].op = "create_product"
    /\ LET workflow_id == sessions[s].id
           project_id == workflows[workflow_id].project_id
           k == sessions[s].arg[1]
           i == get_workflow_step(steps, workflow_id, CreationSteps[k])
       IN  IF ~success
           THEN /\ steps' = [steps EXCEPT ![i].status = WorkflowStatus.FAILED,
                                          ![i].completed_at = now,
                                          ![i].error_message = error]
                /\ workflows' = [workflows EXCEPT
                                    ![workflow_id].status = WorkflowStatus.FAILED]
                /\ projects' = [projects EXCEPT
                                   ![project_id].status = ProjectStatus.FAILED]
                /\ sessions' = [sessions EXCEPT ![s].op = "rollback"]
                /\ UNCHANGED call
           ELSE LET done == [steps EXCEPT ![i].status = WorkflowStatus.COMPLETED,
                                          ![i].completed_at = now,
                                          ![i].output_data = "success"]
                IN  IF k < Len(CreationSteps)
                    THEN /\ projects' = [projects EXCEPT ![project_id].status =
                                            ProjectStatusBefore(k + 1, @)]
                         /\ steps' = StartStep(done,
                                               get_workflow_step(done, workflow_id,
                                                                 CreationSteps[k + 1]),
                                               now)
                         /\ sessions' = [sessions EXCEPT ![s].arg = <<k + 1>>]
                         /\ UNCHANGED <<workflows, call>>
                    ELSE /\ steps' = done
                         /\ workflows' = [workflows EXCEPT
                                             ![workflow_id].status =
                                                 WorkflowStatus.COMPLETED,
                                             ![workflow_id].completed_at = now]
                         /\ projects' = [projects EXCEPT
                                            ![project_id].status =
                                                ProjectStatus.DEPLOYED]
                         /\ sessions' = [sessions EXCEPT ![s] = NoSession]
                         /\ call' = Response("create_product_result", project_id,
                                             TRUE, <<"success">>, "")
    /\ UNCHANGED <<flows, intents, loops, actions, pauses, violations, now>>

\* rollback: the infra agent has answered (its answer is not looked at)
CreateProductRollback(s) ==
    /\ sessions[s].op = "rollback"
    /\ LET workflow_id == sessions[s].id
           project_id == workflows[workflow_id].project_id
       IN  /\ workflows' = [workflows EXCEPT
                               ![workflow_id].status = WorkflowStatus.ROLLED_BACK]
           /\ projects' = [projects EXCEPT
                              ![project_id].status = ProjectStatus.ROLLED_BACK]
           /\ call' = Response("create_product_result", project_id, FALSE,
                               <<"failed", "rolled_back">>, "Workflow failed")
    /\ sessions' = [sessions EXCEPT ![s] = NoSession]
    /\ UNCHANGED <<flows, steps, intents, loops, actions, pauses, violations, now>>

NextProduct ==
    \/ \E s \in Sessions : CreateProduct(s)
    \/ \E s \in Sessions, success \in BOOLEAN, error \in ErrorMessages :
          CreateProductStep(s, success, error)
    \/ \E s \in Sessions : CreateProductRollback(s)

\* the infra agent answers every request (InfraAgent.execute returns its
\* errors), so a rollback that was started is finished
SpecProduct ==
    /\ InitProjects
    /\ [][NextProduct]_vars
    /\ \A s \in Sessions : WF_vars(CreateProductRollback(s))

\* C39: terminate_project on an active project leaves it terminated, never
\* terminating; on a terminated project it succeeds and changes nothing; on
\* any other status it answers PROJECT_NOT_ACTIVE and changes nothing.
C39_TerminateEndsTerminated ==
    [][Requested("terminate_project") /\ call'.id \in DOMAIN projects =>
          LET p == call'.id IN
          /\ projects[p].status = "active" =>
                /\ projects'[p].status = "terminated"
                /\ call'.ok
          /\ projects[p].status = "terminated" =>
                /\ call'.ok
                /\ UNCHANGED <<engine, flows>>
          /\ projects[p].status \notin {"active", "terminated"} =>
                /\ ~call'.ok
                /\ call'.err = "PROJECT_NOT_ACTIVE"
                /\ UNCHANGED <<engine, flows>>]_vars

\* the place in STEP_ORDER of the step of row i
StepPlace(i) ==
    CHOOSE k \in DOMAIN STEP_ORDER : STEP_ORDER[k] = product_steps[i].step_name

\* the rows of product p
RowsOf(p) == {i \in DOMAIN product_steps : product_steps[i].product_id = p}

\* C31: executing a step that is done changes nothing (the step keeps its
\* status, output and timestamps, its logic does not run), and execute_flow
\* leaves every done step as it is and runs the others: when it succeeds
\* every step that was not done has been started at this run.
C31_DoneStepIsNoOp ==
    [][/\ Requested("execute_step") /\ call'.id \in DOMAIN products =>
             LET i == StepRow(product_steps, call'.id, call'.arg[1]) IN
             (i # 0 /\ product_steps[i].status = "done") =>
                 /\ call'.ok
                 /\ product_steps' = product_steps
                 /\ products' = products
       /\ Requested("execute_flow") /\ call'.id \in DOMAIN products =>
             \A i \in RowsOf(call'.id) :
                 IF product_steps[i].status = "done"
                 THEN product_steps'[i] = product_steps[i]
                 ELSE call'.ok =>
                         /\ product_steps'[i].status = "done"
                         /\ product_steps'[i].started_at = now]_vars

\* execute_flow has run again and succeeded: one step was done by an earlier
\* run and kept its timestamps, another was executed by this run
C31_Witness ==
    /\ call.op = "execute_flow" /\ call.ok
    /\ \E i, j \in RowsOf(call.id) :
          /\ product_steps[i].status = "done"
          /\ product_steps[j].status = "done"
          /\ product_steps[i].completed_at < now
          /\ product_steps[j].started_at = now

\* C32: a step whose logic raises is failed with the message of the
\* exception, which reaches the caller; execute_flow then marks the product
\* failed, leaves every later step of STEP_ORDER as it was and every done step
\* as it was; a product is completed only with its five steps done.
C32_FailureStopsFlow ==
    /\ [](\A p \in DOMAIN products :
             products[p].status = "completed" =>
                 /\ Cardinality(RowsOf(p)) = 5
                 /\ \A i \in RowsOf(p) : product_steps[i].status = "done")
    /\ [][/\ Requested("execute_step") /\ ~call'.ok /\ call'.id \in DOMAIN products =>
                LET i == StepRow(product_steps, call'.id, call'.arg[1]) IN
                /\ i # 0
                /\ product_steps'[i].status = "failed"
                /\ product_steps'[i].error_message = call'.err
                /\ call'.err \notin {None, ""}
                /\ \A j \in DOMAIN product_steps \ {i} :
                      product_steps'[j] = product_steps[j]
          /\ Requested("execute_flow") /\ ~call'.ok /\ call'.id \in DOMAIN products =>
                /\ products'[call'.id].status = "failed"
                /\ \E i \in RowsOf(call'.id) :
                      /\ product_steps[i].status # "done"
                      /\ product_steps'[i].status = "failed"
                      /\ product_steps'[i].error_message = call'.err
                      /\ call'.err \notin {None, ""}
                      /\ \A j \in RowsOf(call'.id) \ {i} :
                            /\ StepPlace(j) > StepPlace(i) =>
                                  product_steps'[j] = product_steps[j]
                            /\ StepPlace(j) < StepPlace(i) =>
                                  product_steps'[j].status = "done"
                            /\ product_steps[j].status = "done" =>
                                  product_steps'[j] = product_steps[j]]_vars

\* execute_flow has failed at a step between a done step and a pending one
C32_Witness ==
    /\ call.op = "execute_flow" /\ ~call.ok
    /\ call.id \in DOMAIN products
    /\ products[call.id].status = "failed"
    /\ \E i, j, l \in RowsOf(call.id) :
          /\ StepPlace(i) < StepPlace(j) /\ StepPlace(j) < StepPlace(l)
          /\ product_steps[i].status = "done"
          /\ product_steps[j].status = "failed"
          /\ product_steps[j].error_message = call.err
          /\ product_steps[l].status = "pending"

\* the step rows of workflow w
StepsOf(w) == {i \in DOMAIN steps : steps[i].workflow_id = w}

\* C38: the nine steps of create_product run in their fixed order; after the
\* first failed step every later step stays pending, the workflow is failed
\* and then rolled back; a workflow is completed only with its nine steps
\* completed.
C38_CreationStopsAtFirstFailure ==
    /\ [](\A w \in DOMAIN workflows :
             /\ Cardinality(StepsOf(w)) = 9
             /\ \A i \in StepsOf(w) :
                   steps[i].step_type = CreationSteps[steps[i].order + 1]
             /\ \A i, j \in StepsOf(w) :
                   (steps[i].order < steps[j].order /\ steps[j].status # "pending")
                       => steps[i].status = "completed"
             /\ (\E i \in StepsOf(w) : steps[i].status = "failed")
                    <=> workflows[w].status \in {"failed", "rolled_back"}
             /\ workflows[w].status = "completed" =>
                    \A i \in StepsOf(w) : steps[i].status = "completed")
    /\ [][\A w \in DOMAIN workflows :
             /\ workflows'[w].status = "rolled_back" =>
                    workflows[w].status \in {"failed", "rolled_back"}
             /\ workflows[w].status \in {"failed", "rolled_back"} =>
                    /\ workflows'[w].status \in {"failed", "rolled_back"}
                    /\ \A i \in StepsOf(w) : steps'[i] = steps[i]]_vars
    /\ \A w \in 1..MaxProjects :
          (w \in DOMAIN workflows /\ workflows[w].status = "failed")
              ~> (w \in DOMAIN workflows /\ workflows[w].status = "rolled_back")

\* a run has ended rolled back after a step failed between a completed step
\* and a pending one
C38_Witness ==
    \E w \in DOMAIN workflows :
        /\ workflows[w].status = "rolled_back"
        /\ call.op = "create_product_result" /\ ~call.ok
        /\ call.id = workflows[w].project_id
        /\ \E i, j, l \in StepsOf(w) :
              /\ steps[i].order < steps[j].order /\ steps[j].order < steps[l].order
              /\ steps[i].status = "completed"
              /\ steps[j].status = "failed"
              /\ steps[l].status = "pending"

====
